---- MODULE Spec2Model ----
(***************************************************************************)
(* Build-test-validate orchestration of xfe-control-sim:                   *)
(*   misc/launch_tests.py and sim_example/misc/launch_tests.py.            *)
(* One top-level launcher process ("top") and, in copy-test mode, the      *)
(* delegated launcher subprocess ("child") that runs the standalone        *)
(* pipeline inside the sandbox.  The filesystem is a record per directory. *)
(***************************************************************************)
EXTENDS Integers, Sequences, FiniteSets, TLC

\* ------------------------------------------------------------------ bounds
\* Largest exit status an external child process (cmake, ninja, the binary)
\* returns in the model; statuses are 0..MaxExit.
MaxExit == 2

ExitCodes == 0..MaxExit

\* Exit status of a Python process that dies of an uncaught exception
\* (subprocess.run(..., check=True) raising CalledProcessError).
ExceptionExit == 1

\* ------------------------------------------------------------ log contents
\* A log file's text is a sequence of tokens; a token is an indivisible
\* piece of text.  NL is the line separator, SP is whitespace.
PD == "Program Duration:"
WD == "write Duration:"
CP == "Closing Program"
ERR == "ERROR"
DIC == "discon init complete!"
FAULT == "Unhandled fault"
NL == "\n"
SP == " "

Whitespace == {SP}

\* `marker in content` for a marker that holds no newline.
Contains(content, marker) == \E i \in 1..Len(content) : content[i] = marker

FirstNL(s) == CHOOSE i \in 1..Len(s) : s[i] = NL /\ \A j \in 1..(i - 1) : s[j] # NL

\* content.split("\n")
RECURSIVE SplitLines(_)
SplitLines(s) ==
  IF ~Contains(s, NL) THEN <<s>>
  ELSE <<SubSeq(s, 1, FirstNL(s) - 1)>> \o SplitLines(SubSeq(s, FirstNL(s) + 1, Len(s)))

\* line.strip() is non-empty
NonBlank(line) == \E i \in 1..Len(line) : line[i] \notin Whitespace

\* [line for line in content.split("\n") if line.strip()]
NonBlankLines(content) == SelectSeq(SplitLines(content), NonBlank)

\* Faulty variant of validate_log_file: "write Duration:" is not required.
validate_log_file_NoWriteMarker(log, test_type) ==
  IF ~log.exists THEN FALSE
  ELSE
    LET content == log.content
        lines == NonBlankLines(content)
        kind_ok ==
          IF test_type = "discon" THEN Contains(content, DIC)
          ELSE /\ Contains(content, PD)
               /\ (lines # <<>> => Contains(lines[Len(lines)], CP))
    IN kind_ok /\ ~Contains(content, ERR)

\* Faulty variant of validate_log_file: error lines are printed but do not
\* change the result.
validate_log_file_SoftError(log, test_type) ==
  IF ~log.exists THEN FALSE
  ELSE
    LET content == log.content
        lines == NonBlankLines(content)
    IN IF test_type = "discon" THEN Contains(content, DIC)
       ELSE /\ Contains(content, PD)
            /\ Contains(content, WD)
            /\ (lines # <<>> => Contains(lines[Len(lines)], CP))

\* Faulty variant of validate_log_file: "Closing Program" is looked for in
\* the whole content instead of the last non-blank line.
validate_log_file_AnyLine(log, test_type) ==
  IF ~log.exists THEN FALSE
  ELSE
    LET content == log.content
        kind_ok ==
          IF test_type = "discon" THEN Contains(content, DIC)
          ELSE /\ Contains(content, PD)
               /\ Contains(content, WD)
               /\ Contains(content, CP)
    IN kind_ok /\ ~Contains(content, ERR)

\* Faulty variant of validate_log_file: a missing log is taken for a clean
\* one.
validate_log_file_MissingOk(log, test_type) ==
  IF ~log.exists THEN TRUE
  ELSE
    LET content == log.content
        lines == NonBlankLines(content)
        kind_ok ==
          IF test_type = "discon" THEN Contains(content, DIC)
          ELSE /\ Contains(content, PD)
               /\ Contains(content, WD)
               /\ (lines # <<>> => Contains(lines[Len(lines)], CP))
    IN kind_ok /\ ~Contains(content, ERR)

\* Faulty variant of validate_log_file: the last-line check is applied to
\* both test kinds.
validate_log_file_ShapeForAll(log, test_type) ==
  IF ~log.exists THEN FALSE
  ELSE
    LET content == log.content
        lines == NonBlankLines(content)
        kind_ok ==
          IF test_type = "discon" THEN Contains(content, DIC)
          ELSE /\ Contains(content, PD)
               /\ Contains(content, WD)
    IN /\ kind_ok
       /\ (lines # <<>> => Contains(lines[Len(lines)], CP))
       /\ ~Contains(content, ERR)

\* validate_log_file(log_file, test_type); log is [exists, content].
validate_log_file(log, test_type) ==
  IF ~log.exists THEN FALSE
  ELSE
    LET content == log.content
        lines == NonBlankLines(content)
        kind_ok ==
          IF test_type = "discon" THEN Contains(content, DIC)
          ELSE /\ Contains(content, PD)
               /\ Contains(content, WD)
               /\ (lines # <<>> => Contains(lines[Len(lines)], CP))
    IN kind_ok /\ ~Contains(content, ERR)

\* Logs the simulated binary may leave behind.
GoodSim == <<PD, SP, "1.2s", NL, WD, SP, "0.1s", NL, CP, NL>>
FaultSim == <<PD, SP, "1.2s", NL, WD, SP, "0.1s", NL, FAULT, NL>>
ErrorSim == <<ERR, SP, "x", NL, PD, NL, WD, NL, CP>>
GoodDiscon == <<DIC, NL>>
LogSamples == {GoodSim, FaultSim, ErrorSim, GoodDiscon, <<>>}
\* A complete simulation log followed by blank and whitespace-only lines.
PaddedSim == <<PD, NL, WD, NL, CP, NL, SP, NL, NL>>

NoLog == [exists |-> FALSE, content |-> <<>>]
LogOf(c) == [exists |-> TRUE, content |-> c]

\* -------------------------------------------------------------- filesystem
SimBin == "xfe_control_sim"
DisconBin == "qblade_interface_test"
Exe(name) == IF name = SimBin THEN "xfe_control_sim.exe" ELSE "qblade_interface_test.exe"
BinFiles == {SimBin, Exe(SimBin), DisconBin, Exe(DisconBin)}

\* A build directory: whether it exists, whether cmake configured it, whether
\* executables-out exists and which files it holds, and clang-tidy.log.
NoBuild == [exists |-> FALSE, configured |-> FALSE, outdir |-> FALSE, bins |-> {}, tidylog |-> "absent"]
EmptyBuild == [NoBuild EXCEPT !.exists = TRUE]
CompiledBuild(b) ==
  [exists |-> TRUE, configured |-> TRUE, outdir |-> TRUE, bins |-> {b}, tidylog |-> "stale"]
\* A build directory whose executables-out holds the target under both names.
BothNames(b) == [CompiledBuild(b) EXCEPT !.bins = {b, Exe(b)}]

\* The files of misc/ next to launch_tests.py: scripts[n] says which text
\* file n holds: "none" (absent), "canonical" (the repository's) or "local"
\* (the subdirectory's own).  plot_viewer.py stands for the files no
\* launcher ever copies.
MiscFiles == {"clang_format_all.py", "clang_tidy_all.py", "xflow_shared_functions.py",
              "plot_viewer.py"}
Versions == {"none", "canonical", "local"}
NoScripts == [n \in MiscFiles |-> "none"]
CanonicalScripts == [n \in MiscFiles |-> "canonical"]

\* A project tree: misc/, misc/launch_tests.py (which variant of the
\* launcher it is) and the other files of misc/, the build directory,
\* log/log_data/ and the simulation log.
Variants == {"main", "sim_example"}
NoTree ==
  [exists |-> FALSE, misc |-> FALSE, launcher |-> "none", scripts |-> NoScripts,
   build |-> NoBuild, logdir |-> FALSE, log |-> NoLog]
Tree(launcher, build, log) ==
  [exists |-> TRUE, misc |-> TRUE, launcher |-> launcher, scripts |-> CanonicalScripts,
   build |-> build, logdir |-> log.exists, log |-> log]
TreeNoMisc == [NoTree EXCEPT !.exists = TRUE]

Dirs == {"repo_root", "source_subdir", "tmp_root"}

\* ------------------------------------------------------------ environment
\* What a run reads from its environment: whether CI is set, the value of
\* GITHUB_ACTIONS, whether one of the vendor variables of is_ci_environment
\* other than CI and GITHUB_ACTIONS is set, RUNNER_OS, platform.system(),
\* whether ninja is on PATH, how `sysctl -n hw.ncpu` behaves,
\* os.cpu_count() (0 stands for None), the value of RUN_CLANG_TIDY, and the
\* processes for which `git rev-parse --show-toplevel` succeeds in their
\* working directory.
Cores == 4
SysctlOutcomes == {"ok", "missing", "fails", "garbage"}

Procs == {"top", "child"}

LocalHost ==
  [CI |-> FALSE, GITHUB_ACTIONS |-> "unset", VENDOR_CI |-> FALSE, RUNNER_OS |-> "unset",
   system |-> "Linux", ninja |-> TRUE, sysctl |-> "ok", cpu_count |-> Cores,
   RUN_CLANG_TIDY |-> "unset", git |-> Procs]
GitHubHost ==
  [LocalHost EXCEPT !.CI = TRUE, !.GITHUB_ACTIONS = "true", !.RUNNER_OS = "Linux"]
\* A developer's machine with the analysis step switched off.
NoTidyHost == [LocalHost EXCEPT !.RUN_CLANG_TIDY = "0"]

\* --------------------------------------------------------------- commands
StandaloneCommands == {"xfe_control_sim", "discon"}
CopyCommands == {"sim_example_copy_test", "sim_example_copy_test_discon"}
Commands == StandaloneCommands \cup CopyCommands \cup {"local_xfe_control_sim"}
\* What argparse can leave in args.command: a known command, "none" for a
\* missing token (None), or a token no branch of main() knows.
Tokens == Commands \cup {"none", "bogus"}

VARIABLES
  args,        \* args[p]: [command, rebuild] of process p (argparse result)
  variant,     \* variant[p]: which launch_tests.py process p executes
  env,         \* the environment of the run: variables, platform, PATH
  fs,          \* fs[d]: the tree at directory d
  cache,       \* ~/.cache/cppcheck exists
  pc,          \* pc[p]: position of process p
  exit_code,   \* exit_code[p]: local exit_code / process exit status
  launch_exit, \* run_copy_test's launch_exit (-1: not yet set)
  log_ok,      \* the last validate_log_file result of process p
  rc,          \* return code of the most recent external subprocess
  events       \* history: the filesystem operations and subprocesses issued

vars == <<args, variant, env, fs, cache, pc, exit_code, launch_exit, log_ok, rc, events>>

\* ------------------------------------------------------------ CI detection
\* is_github_actions = os.environ.get("GITHUB_ACTIONS") == "true"
is_github_actions == env.GITHUB_ACTIONS = "true"

\* is_ci = is_github_actions or os.environ.get("CI") is not None: the test
\* both launchers repeat in run_yapf, build_project and
\* sync_scripts_to_subdir, and misc/launch_tests.py also in run_clang_tidy
\* and before calling it.
is_ci == is_github_actions \/ env.CI

\* xflow_shared_functions.is_ci_environment(): any of the eight variables is
\* present, whatever its value.
is_ci_environment == env.CI \/ env.GITHUB_ACTIONS # "unset" \/ env.VENDOR_CI

\* The verdict that gates the analysis step: sim_example/misc/launch_tests.py
\* asks is_ci_environment(), misc/launch_tests.py repeats its own test.
AnalysisCI(p) == IF variant[p] = "main" THEN is_ci ELSE is_ci_environment

\* ------------------------------------------------------------ small helpers
Command(p) == args[p].command
Rebuild(p) == args[p].rebuild
Verbose(p) == args[p].verbose

\* parser.parse_args(): command, rebuild == "1", -v/--verbose.
Args(c, r, v) == [command |-> c, rebuild |-> r, verbose |-> v]
NoArgs == Args("none", FALSE, FALSE)

\* The tree a process builds and runs in: the sandbox for the delegated
\* launcher, the repository root for local_xfe_control_sim, and the
\* directory above the script (script_dir.parent) for a standalone command.
ProjectDir(p) ==
  IF p = "child" THEN "tmp_root"
  ELSE IF Command(p) = "local_xfe_control_sim" THEN "repo_root"
  ELSE "source_subdir"

\* test_type of the running command.
TestType(p) ==
  IF Command(p) \in {"discon", "sim_example_copy_test_discon"} THEN "discon"
  ELSE "xfe_control_sim"

\* binary_name of run_standalone_build / run_main_repo_build.
BinaryName(p) == IF TestType(p) = "discon" THEN DisconBin ELSE SimBin

Event(p, op) == [p |-> p, op |-> op]
Emit(es) == events' = events \o es
Goto(p, l) == pc' = [pc EXCEPT ![p] = l]

\* An uncaught exception ends the process with status ExceptionExit.
Raise(p) ==
  /\ pc' = [pc EXCEPT ![p] = "done"]
  /\ exit_code' = [exit_code EXCEPT ![p] = ExceptionExit]

SetBuild(p, b) == fs' = [fs EXCEPT ![ProjectDir(p)].build = b]
Build(p) == fs[ProjectDir(p)].build

\* ------------------------------------------------------------------- main
\* get_git_root() of the running launcher fails: misc/launch_tests.py
\* returns None, which main() answers with sys.exit(1) for the main-repo and
\* copy-test commands and run_standalone_build with a fallback to the local
\* directory; xflow_shared_functions.get_git_root() is called with its
\* default exit_on_error=True by sim_example/misc/launch_tests.py and ends
\* the process with status 1 itself, for every command.
GitRootFatal(p) ==
  /\ p \notin env.git
  /\ (Command(p) \notin StandaloneCommands \/ variant[p] = "sim_example")

\* Exit(p, code): sys.exit(code) before the pipeline has started.
Exit(p, code) ==
  /\ pc' = [pc EXCEPT ![p] = "done"]
  /\ exit_code' = [exit_code EXCEPT ![p] = code]

\* Faulty variant of Main: a failed get_git_root() falls back to the local
\* directory for every command.
Main_GitFallback(p) ==
  /\ pc[p] = "main"
  /\ IF Command(p) = "none" THEN Exit(p, 0)
     ELSE IF Command(p) \notin Commands THEN Exit(p, 1)
     ELSE /\ Goto(p, IF Command(p) \in StandaloneCommands THEN "clang_format" ELSE "yapf")
          /\ UNCHANGED exit_code
  /\ UNCHANGED <<args, variant, env, fs, cache, launch_exit, log_ok, rc, events>>

\* main(): no command prints the help and exits 0; an unknown command exits
\* 1; a known command asks for the git root and enters its pipeline (for a
\* standalone command the git root is asked for by run_standalone_build,
\* before its first step).
Main(p) ==
  /\ pc[p] = "main"
  /\ IF Command(p) = "none" THEN Exit(p, 0)
     ELSE IF Command(p) \notin Commands THEN Exit(p, 1)
     ELSE IF GitRootFatal(p) THEN Exit(p, 1)
     ELSE /\ Goto(p, IF Command(p) \in StandaloneCommands THEN "clang_format" ELSE "yapf")
          /\ UNCHANGED exit_code
  /\ UNCHANGED <<args, variant, env, fs, cache, launch_exit, log_ok, rc, events>>

\* run_yapf(repo_root): skipped in CI and when yapf is not on PATH; its
\* return code only selects the message printed.
RunYapf(p) ==
  /\ pc[p] = "yapf"
  /\ \E has_yapf \in BOOLEAN, r \in {0, 1} :
       IF is_ci \/ ~has_yapf
       THEN UNCHANGED <<rc, events>>
       ELSE rc' = r /\ Emit(<<Event(p, "yapf")>>)
  /\ Goto(p, "sync")
  /\ UNCHANGED <<args, variant, env, fs, cache, exit_code, launch_exit, log_ok>>

\* scripts_to_copy without launch_tests.py: the sim_example launcher also
\* copies xflow_shared_functions.py.
scripts_to_copy(v) ==
  IF v = "main" THEN {"clang_format_all.py", "clang_tidy_all.py"}
  ELSE {"clang_format_all.py", "clang_tidy_all.py", "xflow_shared_functions.py"}

\* Faulty variant of SyncedTree: the source misc/ is mirrored.
SyncedTree_Mirror(v, src, dst) ==
  [dst EXCEPT !.launcher = src.launcher, !.scripts = src.scripts]

\* The copy loop: shutil.copy2(source_file, dest_file) for every script of
\* the list that exists in the source misc/.
SyncedTree(v, src, dst) ==
  [dst EXCEPT
     !.launcher = IF src.launcher # "none" THEN src.launcher ELSE dst.launcher,
     !.scripts = [n \in MiscFiles |->
                    IF n \in scripts_to_copy(v) /\ src.scripts[n] # "none"
                    THEN src.scripts[n] ELSE dst.scripts[n]]]

\* Faulty variant of SyncScripts: a missing destination misc/ is created.
SyncScripts_Mkdir(p) ==
  /\ pc[p] = "sync"
  /\ IF is_ci
     THEN UNCHANGED <<fs, events>>
     ELSE /\ fs' = [fs EXCEPT !["source_subdir"] =
                      SyncedTree(variant[p], fs["repo_root"],
                                 [fs["source_subdir"] EXCEPT !.exists = TRUE, !.misc = TRUE])]
          /\ Emit(<<Event(p, "sync")>>)
  /\ Goto(p, "clang_format")
  /\ UNCHANGED <<args, variant, env, cache, exit_code, launch_exit, log_ok, rc>>

\* Faulty variant of SyncScripts: the CI test is missing.
SyncScripts_InCI(p) ==
  /\ pc[p] = "sync"
  /\ IF ~fs["source_subdir"].misc
     THEN UNCHANGED <<fs, events>>
     ELSE /\ fs' = [fs EXCEPT !["source_subdir"] =
                      SyncedTree(variant[p], fs["repo_root"], fs["source_subdir"])]
          /\ Emit(<<Event(p, "sync")>>)
  /\ Goto(p, "clang_format")
  /\ UNCHANGED <<args, variant, env, cache, exit_code, launch_exit, log_ok, rc>>

\* sync_scripts_to_subdir(repo_root, subdir_name): returns at once in CI and
\* when <subdir>/misc is missing; otherwise runs the copy loop.
SyncScripts(p) ==
  /\ pc[p] = "sync"
  /\ IF is_ci \/ ~fs["source_subdir"].misc
     THEN UNCHANGED <<fs, events>>
     ELSE /\ fs' = [fs EXCEPT !["source_subdir"] =
                      SyncedTree(variant[p], fs["repo_root"], fs["source_subdir"])]
          /\ Emit(<<Event(p, "sync")>>)
  /\ Goto(p, "clang_format")
  /\ UNCHANGED <<args, variant, env, cache, exit_code, launch_exit, log_ok, rc>>

\* Faulty variant of RunClangFormat: the subprocess is run with check=True.
RunClangFormat_Checked(p) ==
  /\ pc[p] = "clang_format"
  /\ \E found \in BOOLEAN, r \in {0, 1} :
       IF ~found
       THEN /\ Goto(p, IF Command(p) \in CopyCommands THEN "recreate" ELSE "build_project")
            /\ UNCHANGED <<rc, events, exit_code>>
       ELSE /\ rc' = r
            /\ Emit(<<Event(p, "clang_format")>>)
            /\ IF r # 0 THEN Raise(p)
               ELSE /\ Goto(p, IF Command(p) \in CopyCommands THEN "recreate" ELSE "build_project")
                    /\ UNCHANGED exit_code
  /\ UNCHANGED <<args, variant, env, fs, cache, launch_exit, log_ok>>

\* run_clang_format(repo_root): skipped when the script or clang-format is
\* missing; a non-zero return is a warning.
RunClangFormat(p) ==
  /\ pc[p] = "clang_format"
  /\ \E found \in BOOLEAN, r \in {0, 1} :
       IF ~found
       THEN UNCHANGED <<rc, events>>
       ELSE rc' = r /\ Emit(<<Event(p, "clang_format")>>)
  /\ Goto(p, IF Command(p) \in CopyCommands THEN "recreate" ELSE "build_project")
  /\ UNCHANGED <<args, variant, env, fs, cache, exit_code, launch_exit, log_ok>>

\* ---------------------------------------------------------- build_project
\* Faulty variant of Cleaning: the deletions sit outside `if rebuild:`.
Cleaning_IgnoreFlag(p) ==
  /\ pc[p] = "build_project"
  /\ SetBuild(p, NoBuild)
  /\ cache' = FALSE
  /\ Emit((IF Build(p).exists THEN <<Event(p, "rmtree_build")>> ELSE <<>>)
          \o (IF cache THEN <<Event(p, "rmtree_cache")>> ELSE <<>>))
  /\ Goto(p, IF Rebuild(p) THEN "mkdir" ELSE "clang_tidy")
  /\ UNCHANGED <<args, variant, env, exit_code, launch_exit, log_ok, rc>>

\* Faulty variant of Cleaning: the cppcheck cache is left in place.
Cleaning_KeepCache(p) ==
  /\ pc[p] = "build_project"
  /\ IF Rebuild(p)
     THEN /\ SetBuild(p, NoBuild)
          /\ Emit(IF Build(p).exists THEN <<Event(p, "rmtree_build")>> ELSE <<>>)
          /\ Goto(p, "mkdir")
     ELSE /\ UNCHANGED <<fs, events>>
          /\ Goto(p, "clang_tidy")
  /\ UNCHANGED <<args, variant, env, cache, exit_code, launch_exit, log_ok, rc>>

\* Faulty variant of Cleaning: a missing build directory is built even with
\* rebuild false (`if rebuild or not build_dir.exists():`).
Cleaning_BuildIfAbsent(p) ==
  /\ pc[p] = "build_project"
  /\ IF Rebuild(p) \/ ~Build(p).exists
     THEN /\ SetBuild(p, NoBuild)
          /\ cache' = FALSE
          /\ Emit((IF Build(p).exists THEN <<Event(p, "rmtree_build")>> ELSE <<>>)
                  \o (IF cache THEN <<Event(p, "rmtree_cache")>> ELSE <<>>))
          /\ Goto(p, "mkdir")
     ELSE /\ UNCHANGED <<fs, cache, events>>
          /\ Goto(p, "clang_tidy")
  /\ UNCHANGED <<args, variant, env, exit_code, launch_exit, log_ok, rc>>

\* CLEANING: `if rebuild:` rmtree(build_dir) if it exists, rmtree(cache_dir)
\* if it exists.  With rebuild false build_project does nothing at all.
Cleaning(p) ==
  /\ pc[p] = "build_project"
  /\ IF Rebuild(p)
     THEN /\ SetBuild(p, NoBuild)
          /\ cache' = FALSE
          /\ Emit((IF Build(p).exists THEN <<Event(p, "rmtree_build")>> ELSE <<>>)
                  \o (IF cache THEN <<Event(p, "rmtree_cache")>> ELSE <<>>))
          /\ Goto(p, "mkdir")
     ELSE /\ UNCHANGED <<fs, cache, events>>
          /\ Goto(p, "clang_tidy")
  /\ UNCHANGED <<args, variant, env, exit_code, launch_exit, log_ok, rc>>

\* build_dir.mkdir(parents=True, exist_ok=True)
MkBuildDir(p) ==
  /\ pc[p] = "mkdir"
  /\ fs' = [fs EXCEPT ![ProjectDir(p)].exists = TRUE,
                      ![ProjectDir(p)].build = IF Build(p).exists THEN Build(p) ELSE EmptyBuild]
  /\ Emit(<<Event(p, "mkdir_build")>>)
  /\ Goto(p, "nproc")
  /\ UNCHANGED <<args, variant, env, cache, exit_code, launch_exit, log_ok, rc>>

\* ---- get_nproc
\* get_nproc() dies of an uncaught exception: on Darwin it runs
\* `sysctl -n hw.ncpu` with check=True and parses the output with int().
\* misc/launch_tests.py catches nothing (a missing command is
\* FileNotFoundError, a non-zero exit CalledProcessError, unparsable output
\* ValueError); sim_example/misc/launch_tests.py catches CalledProcessError
\* and ValueError only.
NprocRaises(v) ==
  /\ env.system = "Darwin"
  /\ IF v = "main" THEN env.sysctl # "ok" ELSE env.sysctl = "missing"

\* The value get_nproc() returns when it returns: the sysctl count on
\* Darwin when the query worked, else `os.cpu_count() or 1`.
get_nproc(v) ==
  IF env.system = "Darwin" /\ env.sysctl = "ok" THEN Cores
  ELSE IF env.cpu_count = 0 THEN 1 ELSE env.cpu_count

\* The -j argument as it appears on the build command line.
JobsArg(n) == IF n < 1 THEN "-j 0" ELSE IF n = 1 THEN "-j 1" ELSE "-j N"

\* nproc = get_nproc()
GetNproc(p) ==
  /\ pc[p] = "nproc"
  /\ IF NprocRaises(variant[p])
     THEN Raise(p) /\ UNCHANGED events
     ELSE /\ Emit(<<Event(p, JobsArg(get_nproc(variant[p])))>>)
          /\ Goto(p, "toolchain")
          /\ UNCHANGED exit_code
  /\ UNCHANGED <<args, variant, env, fs, cache, launch_exit, log_ok, rc>>

\* ---- generator, OS, compilers, build type
\* Faulty variant of generator: Ninja is asked for unconditionally.
generator_AlwaysNinja == "-G Ninja"

\* generator = ["-G", "Ninja"] if check_command_exists("ninja") else []
generator == IF env.ninja THEN "-G Ninja" ELSE "no -G"

\* build_cmd without its -j argument.
build_cmd(p) ==
  IF env.ninja
  THEN IF Verbose(p) THEN "ninja -v" ELSE "ninja"
  ELSE IF Verbose(p) THEN "make VERBOSE=1" ELSE "make"

\* os_name: RUNNER_OS (default platform.system()) under GitHub Actions,
\* platform.system() otherwise.
os_name ==
  IF is_github_actions /\ env.RUNNER_OS # "unset" THEN env.RUNNER_OS ELSE env.system

\* The else branch of the GitHub Actions compiler table: sys.exit(1).
UnsupportedOS == is_github_actions /\ os_name \notin {"Windows", "macOS", "Darwin", "Linux"}

\* cc of the compiler selection.
cc ==
  IF is_github_actions
  THEN IF os_name = "Windows" THEN "C:/deps/llvm-mingw/bin/clang.exe"
       ELSE IF os_name \in {"macOS", "Darwin"} THEN "/opt/homebrew/opt/llvm/bin/clang"
       ELSE "/usr/bin/clang"
  ELSE IF env.system = "Darwin" THEN "/opt/homebrew/opt/llvm/bin/clang" ELSE "clang"

\* build_executable of the caller: False for the DISCON test only.
build_executable(p) == TestType(p) # "discon"

\* build_type: "Release" if is_ci else "Debug", then overwritten by both
\* branches of `if not build_executable`.
build_type(p) ==
  LET first == IF is_ci THEN "Release" ELSE "Debug"
      second == IF ~build_executable(p) THEN "Release" ELSE "Debug"
  IN second

\* Everything build_project settles between get_nproc and cmake; the
\* choices are recorded in the history as they appear on the command lines.
SelectToolchain(p) ==
  /\ pc[p] = "toolchain"
  /\ IF UnsupportedOS
     THEN /\ pc' = [pc EXCEPT ![p] = "done"]
          /\ exit_code' = [exit_code EXCEPT ![p] = 1]
          /\ UNCHANGED events
     ELSE /\ Emit(<<Event(p, generator), Event(p, build_cmd(p)), Event(p, cc),
                    Event(p, build_type(p))>>)
          /\ Goto(p, "configure")
          /\ UNCHANGED exit_code
  /\ UNCHANGED <<args, variant, env, fs, cache, launch_exit, log_ok, rc>>

\* ---- cmake, build
\* Faulty variant of Configure: cmake run without check=True.
Configure_Unchecked(p) ==
  /\ pc[p] = "configure"
  /\ \E r \in ExitCodes :
       /\ rc' = r
       /\ SetBuild(p, [Build(p) EXCEPT !.configured = (r = 0)])
       /\ Emit(<<Event(p, "configure")>>)
       /\ Goto(p, "compile")
  /\ UNCHANGED <<args, variant, env, cache, exit_code, launch_exit, log_ok>>

\* CONFIGURING: subprocess.run(cmake_cmd, check=True, cwd=source_dir).  A
\* working directory that is gone makes subprocess.run itself raise
\* (FileNotFoundError) before any process is started; cmake creates the
\* directory given with -B when it is missing.
Configure(p) ==
  /\ pc[p] = "configure"
  /\ IF ~fs[ProjectDir(p)].exists
     THEN /\ Raise(p)
          /\ UNCHANGED <<fs, rc, events>>
     ELSE \E r \in ExitCodes :
       /\ rc' = r
       /\ IF r = 0
          THEN /\ SetBuild(p, [(IF Build(p).exists THEN Build(p) ELSE EmptyBuild)
                                 EXCEPT !.configured = TRUE])
               /\ Emit(<<Event(p, "configure")>>)
               /\ Goto(p, "compile")
               /\ UNCHANGED exit_code
          ELSE /\ Emit(<<Event(p, "configure")>>)
               /\ Raise(p)
               /\ UNCHANGED fs
  /\ UNCHANGED <<args, variant, env, cache, launch_exit, log_ok>>

\* Faulty variant of Compile: the build command run without check=True.
Compile_Unchecked(p) ==
  /\ pc[p] = "compile"
  /\ \E r \in ExitCodes, out \in {BinaryName(p), Exe(BinaryName(p))} :
       /\ rc' = r
       /\ SetBuild(p, IF r = 0 THEN [Build(p) EXCEPT !.outdir = TRUE, !.bins = {out}] ELSE Build(p))
       /\ Emit(<<Event(p, "compile")>>)
       /\ Goto(p, "clang_tidy")
  /\ UNCHANGED <<args, variant, env, cache, exit_code, launch_exit, log_ok>>

\* COMPILING: subprocess.run(build_cmd, check=True, cwd=build_dir); a
\* successful build leaves the target in executables-out, with or without
\* the platform's executable suffix.  A build directory that is gone makes
\* subprocess.run itself raise before any process is started.
Compile(p) ==
  /\ pc[p] = "compile"
  /\ IF ~Build(p).exists
     THEN /\ Raise(p)
          /\ UNCHANGED <<fs, rc, events>>
     ELSE \E r \in ExitCodes, out \in {BinaryName(p), Exe(BinaryName(p))} :
       /\ rc' = r
       /\ IF r = 0
          THEN /\ SetBuild(p, [Build(p) EXCEPT !.outdir = TRUE, !.bins = {out}])
               /\ Emit(<<Event(p, "compile")>>)
               /\ Goto(p, "clang_tidy")
               /\ UNCHANGED exit_code
          ELSE /\ Emit(<<Event(p, "compile")>>)
               /\ Raise(p)
               /\ UNCHANGED fs
  /\ UNCHANGED <<args, variant, env, cache, launch_exit, log_ok>>

\* ------------------------------------------------------------ run_clang_tidy
\* Whether the analysis command line gets `--extraargs -warnings-as-errors`.
\* misc/launch_tests.py appends it when its own CI test holds (line 222);
\* sim_example/misc/launch_tests.py calls the shared run_clang_tidy without
\* in_cloud (line 309), which therefore keeps its default, False.
WarningsAsErrors(p) == IF variant[p] = "main" THEN is_ci ELSE FALSE

\* The analysis step.  run_clang_tidy is called when in CI or RUN_CLANG_TIDY
\* is "1" (the default).  It returns at once, before touching the analysis
\* log, when the script (or, in the shared version, the analyzer) is not
\* found.  Otherwise it unlinks the old log and opens a new one for the
\* analyzer's output.  misc/launch_tests.py opens <build_dir>/clang-tidy.log
\* outside any try block, so a missing build directory is an uncaught
\* FileNotFoundError; xflow_shared_functions.run_clang_tidy catches it.
run_clang_tidy_enabled ==
  IF env.RUN_CLANG_TIDY = "unset" THEN "1" ELSE env.RUN_CLANG_TIDY

\* Faulty variant of RunClangTidy: RUN_CLANG_TIDY alone decides.
RunClangTidy_ToggleOnly(p) ==
  /\ pc[p] = "clang_tidy"
  /\ \E found \in BOOLEAN, r \in {0, 1} :
       IF run_clang_tidy_enabled # "1"
       THEN /\ Goto(p, "run_binary")
            /\ UNCHANGED <<fs, rc, events, exit_code>>
       ELSE IF ~found
       THEN /\ Emit(<<Event(p, "clang_tidy_skipped")>>)
            /\ Goto(p, "run_binary")
            /\ UNCHANGED <<fs, rc, exit_code>>
       ELSE IF ~Build(p).exists
       THEN /\ IF variant[p] = "main" THEN Raise(p)
               ELSE Goto(p, "run_binary") /\ UNCHANGED exit_code
            /\ UNCHANGED <<fs, rc, events>>
       ELSE /\ SetBuild(p, [Build(p) EXCEPT !.tidylog = "current"])
            /\ rc' = r
            /\ Emit(<<Event(p, "clang_tidy")>>
                      \o (IF WarningsAsErrors(p) THEN <<Event(p, "warnings_as_errors")>> ELSE <<>>))
            /\ Goto(p, "run_binary")
            /\ UNCHANGED exit_code
  /\ UNCHANGED <<args, variant, env, cache, launch_exit, log_ok>>

RunClangTidy(p) ==
  /\ pc[p] = "clang_tidy"
  /\ \E found \in BOOLEAN, r \in {0, 1} :
       IF ~(AnalysisCI(p) \/ run_clang_tidy_enabled = "1")
       THEN /\ Goto(p, "run_binary")
            /\ UNCHANGED <<fs, rc, events, exit_code>>
       ELSE IF ~found
       THEN /\ Emit(<<Event(p, "clang_tidy_skipped")>>)
            /\ Goto(p, "run_binary")
            /\ UNCHANGED <<fs, rc, exit_code>>
       ELSE IF ~Build(p).exists
       THEN /\ IF variant[p] = "main" THEN Raise(p)
               ELSE Goto(p, "run_binary") /\ UNCHANGED exit_code
            /\ UNCHANGED <<fs, rc, events>>
       ELSE /\ SetBuild(p, [Build(p) EXCEPT !.tidylog = "current"])
            /\ rc' = r
            /\ Emit(<<Event(p, "clang_tidy")>>
                      \o (IF WarningsAsErrors(p) THEN <<Event(p, "warnings_as_errors")>> ELSE <<>>))
            /\ Goto(p, "run_binary")
            /\ UNCHANGED exit_code
  /\ UNCHANGED <<args, variant, env, cache, launch_exit, log_ok>>

\* ---------------------------------------------------------------- run_binary
\* Faulty variant of BinPath: the suffixed name is tried first.
BinPath_ExeFirst(b, name) ==
  IF ~b.outdir THEN "none"
  ELSE IF Exe(name) \in b.bins THEN Exe(name)
  ELSE IF name \in b.bins THEN name
  ELSE "none"

\* The file run_binary launches: <name>, else <name>.exe, else none.
BinPath(b, name) ==
  IF ~b.outdir THEN "none"
  ELSE IF name \in b.bins THEN name
  ELSE IF Exe(name) \in b.bins THEN Exe(name)
  ELSE "none"

\* run_binary(source_dir, build_dir, binary_name): creates log/log_data,
\* returns 1 when the binary is missing, else the binary's return code.  The
\* binary may rewrite the simulation log or leave it as it was.  The history
\* records the launch and the file launched.
RunBinary(p) ==
  /\ pc[p] = "run_binary"
  /\ IF BinPath(Build(p), BinaryName(p)) = "none"
     THEN /\ fs' = [fs EXCEPT ![ProjectDir(p)].exists = TRUE, ![ProjectDir(p)].logdir = TRUE]
          /\ exit_code' = [exit_code EXCEPT ![p] = 1]
          /\ UNCHANGED <<rc, events>>
     ELSE \E r \in ExitCodes, newlog \in {fs[ProjectDir(p)].log} \cup {LogOf(c) : c \in LogSamples} :
            /\ fs' = [fs EXCEPT ![ProjectDir(p)].logdir = TRUE, ![ProjectDir(p)].log = newlog]
            /\ exit_code' = [exit_code EXCEPT ![p] = r]
            /\ rc' = r
            /\ Emit(<<Event(p, "run_binary"), Event(p, BinPath(Build(p), BinaryName(p)))>>)
  /\ Goto(p, "validate")
  /\ UNCHANGED <<args, variant, env, cache, launch_exit, log_ok>>

\* Faulty variant of ValidateAndReturn: a failed validation does not change
\* the exit code.
ValidateAndReturn_Absorb(p) ==
  /\ pc[p] = "validate"
  /\ IF TestType(p) = "xfe_control_sim"
     THEN /\ log_ok' = [log_ok EXCEPT ![p] =
                          validate_log_file(fs[ProjectDir(p)].log, "xfe_control_sim")]
          /\ Emit(<<Event(p, "validate")>>)
     ELSE UNCHANGED <<log_ok, events>>
  /\ Goto(p, "done")
  /\ UNCHANGED <<args, variant, env, fs, cache, exit_code, launch_exit, rc>>

\* Faulty variant of ValidateAndReturn: the log is validated for both test
\* kinds.
ValidateAndReturn_AllKinds(p) ==
  /\ pc[p] = "validate"
  /\ LET ok == validate_log_file(fs[ProjectDir(p)].log, TestType(p)) IN
       /\ log_ok' = [log_ok EXCEPT ![p] = ok]
       /\ exit_code' = [exit_code EXCEPT ![p] = IF ~ok /\ @ = 0 THEN 1 ELSE @]
       /\ Emit(<<Event(p, "validate")>>)
  /\ Goto(p, "done")
  /\ UNCHANGED <<args, variant, env, fs, cache, launch_exit, rc>>

\* The tail of run_standalone_build / run_main_repo_build: validate the log
\* (not for the discon test) and turn a failed validation of a successful
\* run into exit code 1; then main() does sys.exit(exit_code).
ValidateAndReturn(p) ==
  /\ pc[p] = "validate"
  /\ IF TestType(p) = "xfe_control_sim"
     THEN LET ok == validate_log_file(fs[ProjectDir(p)].log, "xfe_control_sim") IN
          /\ log_ok' = [log_ok EXCEPT ![p] = ok]
          /\ exit_code' = [exit_code EXCEPT ![p] = IF ~ok /\ @ = 0 THEN 1 ELSE @]
          /\ Emit(<<Event(p, "validate")>>)
     ELSE UNCHANGED <<log_ok, exit_code, events>>
  /\ Goto(p, "done")
  /\ UNCHANGED <<args, variant, env, fs, cache, launch_exit, rc>>

\* ------------------------------------------------------------- run_copy_test
\* Faulty variant of Recreate: a rebuild does not remove the old sandbox.
Recreate_Skip(p) ==
  /\ pc[p] = "recreate"
  /\ Goto(p, "copy")
  /\ UNCHANGED <<args, variant, env, fs, cache, exit_code, launch_exit, log_ok, rc, events>>

\* Faulty variant of Recreate: the deletion waits until no launcher is
\* building or running in the sandbox.
Recreate_Locked(p) ==
  /\ pc[p] = "recreate"
  /\ \A q \in Procs \ {p} : pc[q] \in {"idle", "done"}
  /\ IF Rebuild(p) /\ fs["tmp_root"].exists
     THEN fs' = [fs EXCEPT !["tmp_root"] = NoTree] /\ Emit(<<Event(p, "rmtree_tmp")>>)
     ELSE UNCHANGED <<fs, events>>
  /\ Goto(p, "copy")
  /\ UNCHANGED <<args, variant, env, cache, exit_code, launch_exit, log_ok, rc>>

\* `if rebuild: if tmp_root.exists(): shutil.rmtree(tmp_root)`
Recreate(p) ==
  /\ pc[p] = "recreate"
  /\ IF Rebuild(p) /\ fs["tmp_root"].exists
     THEN fs' = [fs EXCEPT !["tmp_root"] = NoTree] /\ Emit(<<Event(p, "rmtree_tmp")>>)
     ELSE UNCHANGED <<fs, events>>
  /\ Goto(p, "copy")
  /\ UNCHANGED <<args, variant, env, cache, exit_code, launch_exit, log_ok, rc>>

\* Faulty variant of CopyTree: copies over an existing sandbox
\* (copytree(..., dirs_exist_ok=True) without the existence test).
CopyTree_Always(p) ==
  /\ pc[p] = "copy"
  /\ fs' = [fs EXCEPT !["tmp_root"] = fs["source_subdir"]]
  /\ Emit(<<Event(p, "copytree")>>)
  /\ Goto(p, "launcher_check")
  /\ UNCHANGED <<args, variant, env, cache, exit_code, launch_exit, log_ok, rc>>

\* `if not tmp_root.exists(): shutil.copytree(source_subdir, tmp_root)`
CopyTree(p) ==
  /\ pc[p] = "copy"
  /\ IF ~fs["tmp_root"].exists
     THEN fs' = [fs EXCEPT !["tmp_root"] = fs["source_subdir"]] /\ Emit(<<Event(p, "copytree")>>)
     ELSE UNCHANGED <<fs, events>>
  /\ Goto(p, "launcher_check")
  /\ UNCHANGED <<args, variant, env, cache, exit_code, launch_exit, log_ok, rc>>

\* command_arg of run_copy_test.
CommandArg(test_type) == IF test_type = "discon" THEN "discon" ELSE "xfe_control_sim"

\* Faulty variant of Delegate: the sandbox is removed when it holds no
\* launcher.
Delegate_Cleanup(p) ==
  /\ pc[p] = "launcher_check"
  /\ IF fs["tmp_root"].launcher = "none"
     THEN /\ pc' = [pc EXCEPT ![p] = "done"]
          /\ exit_code' = [exit_code EXCEPT ![p] = 1]
          /\ fs' = [fs EXCEPT !["tmp_root"] = NoTree]
          /\ UNCHANGED <<args, variant, events>>
     ELSE /\ pc' = [pc EXCEPT ![p] = "wait", !["child"] = "main"]
          /\ args' = [args EXCEPT !["child"] =
                        [command |-> CommandArg(TestType(p)), rebuild |-> Rebuild(p),
                         verbose |-> FALSE]]
          /\ variant' = [variant EXCEPT !["child"] = fs["tmp_root"].launcher]
          /\ Emit(<<Event(p, "delegate")>>)
          /\ UNCHANGED <<exit_code, fs>>
  /\ UNCHANGED <<env, cache, launch_exit, log_ok, rc>>

\* The launcher check and the delegated subprocess: return 1 when
\* <tmp_root>/misc/launch_tests.py is missing, else start it with the same
\* rebuild flag and wait for it.
Delegate(p) ==
  /\ pc[p] = "launcher_check"
  /\ IF fs["tmp_root"].launcher = "none"
     THEN /\ pc' = [pc EXCEPT ![p] = "done"]
          /\ exit_code' = [exit_code EXCEPT ![p] = 1]
          /\ UNCHANGED <<args, variant, events>>
     ELSE /\ pc' = [pc EXCEPT ![p] = "wait", !["child"] = "main"]
          /\ args' = [args EXCEPT !["child"] =
                        [command |-> CommandArg(TestType(p)), rebuild |-> Rebuild(p),
                         verbose |-> FALSE]]
          /\ variant' = [variant EXCEPT !["child"] = fs["tmp_root"].launcher]
          /\ Emit(<<Event(p, "delegate")>>)
          /\ UNCHANGED exit_code
  /\ UNCHANGED <<env, fs, cache, launch_exit, log_ok, rc>>

\* Faulty variant of ValidateSandbox: the parent does not wait for the
\* delegated launcher.
ValidateSandbox_NoWait(p) ==
  /\ pc[p] = "wait"
  /\ launch_exit' = exit_code["child"]
  /\ rc' = exit_code["child"]
  /\ log_ok' = [log_ok EXCEPT ![p] = validate_log_file(fs["tmp_root"].log, TestType(p))]
  /\ Emit(<<Event(p, "validate")>>)
  /\ Goto(p, "cleanup")
  /\ UNCHANGED <<args, variant, env, fs, cache, exit_code>>

\* subprocess.run returns when the child has exited:
\* launch_exit = result.returncode; then the log inside the sandbox is
\* validated.
ValidateSandbox(p) ==
  /\ pc[p] = "wait"
  /\ pc["child"] = "done"
  /\ launch_exit' = exit_code["child"]
  /\ rc' = exit_code["child"]
  /\ log_ok' = [log_ok EXCEPT ![p] = validate_log_file(fs["tmp_root"].log, TestType(p))]
  /\ Emit(<<Event(p, "validate")>>)
  /\ Goto(p, "cleanup")
  /\ UNCHANGED <<args, variant, env, fs, cache, exit_code>>

\* Faulty variants of CopyTestExit: the validation verdict is dropped
\* (`return launch_exit` on both branches), or the delegated exit code is
\* dropped on a failed validation (`return 1`).
CopyTestExit_Absorb(ok, launch) == launch
CopyTestExit_AlwaysOne(ok, launch) == IF ok THEN launch ELSE 1

\* The exit code run_copy_test returns.
CopyTestExit(ok, launch) == IF ok THEN launch ELSE IF launch # 0 THEN launch ELSE 1

\* Faulty variant of CleanupTree: the sandbox is never removed.
CleanupTree_Keep(ok, tree) == tree

\* What run_copy_test leaves of the sandbox: removed when the log validated.
CleanupTree(ok, tree) == IF ok THEN NoTree ELSE tree

\* CLEANUP or PRESERVE, and the return.
CleanupOrPreserve(p) ==
  /\ pc[p] = "cleanup"
  /\ fs' = [fs EXCEPT !["tmp_root"] = CleanupTree(log_ok[p], @)]
  /\ IF log_ok[p] THEN Emit(<<Event(p, "rmtree_tmp")>>) ELSE UNCHANGED events
  /\ exit_code' = [exit_code EXCEPT ![p] = CopyTestExit(log_ok[p], launch_exit)]
  /\ Goto(p, "done")
  /\ UNCHANGED <<args, variant, env, cache, launch_exit, log_ok, rc>>

\* ------------------------------------------------------ initial states, Next
\* Build directories and simulation logs earlier runs may have left.
\* The environments of the pipeline specification: a developer's machine,
\* with the analysis step left on or switched off, and a GitHub Actions
\* runner.
SpecHosts == {LocalHost, NoTidyHost, GitHubHost}

PriorBuilds == {NoBuild, CompiledBuild(SimBin), CompiledBuild(DisconBin), BothNames(SimBin)}
PriorLogs == {NoLog, LogOf(GoodSim), LogOf(FaultSim)}

\* The tree a standalone or main-repo command runs in holds the running
\* launcher.
ProjectStates(v) == {Tree(v, b, l) : b \in PriorBuilds, l \in PriorLogs}

\* The subdirectory a copy test copies (sim_example).
SubdirStates ==
  {Tree(l, NoBuild, NoLog) : l \in {"sim_example", "none"}}
    \cup {Tree(l, CompiledBuild(SimBin), LogOf(GoodSim)) : l \in {"sim_example", "none"}}
    \cup {TreeNoMisc}

\* The sandbox before a copy test: absent, or preserved by an earlier run.
PriorTmpStates ==
  {NoTree,
   Tree("sim_example", CompiledBuild(SimBin), LogOf(FaultSim)),
   Tree("none", NoBuild, LogOf(GoodSim))}

Init ==
  /\ \E c \in Commands, r \in BOOLEAN, v \in Variants :
       /\ args = [p \in Procs |-> IF p = "top" THEN Args(c, r, FALSE) ELSE NoArgs]
       /\ variant = [p \in Procs |-> IF p = "top" THEN v ELSE "none"]
       /\ IF c \in StandaloneCommands
          THEN \E t \in ProjectStates(v) :
                 fs = [d \in Dirs |-> IF d = "source_subdir" THEN t ELSE NoTree]
          ELSE IF c = "local_xfe_control_sim"
          THEN \E t \in ProjectStates(v), s \in {Tree("sim_example", NoBuild, NoLog), TreeNoMisc} :
                 fs = [d \in Dirs |-> IF d = "repo_root" THEN t
                                      ELSE IF d = "source_subdir" THEN s ELSE NoTree]
          ELSE \E s \in SubdirStates, t \in PriorTmpStates :
                 fs = [d \in Dirs |-> IF d = "repo_root" THEN Tree(v, NoBuild, NoLog)
                                      ELSE IF d = "source_subdir" THEN s ELSE t]
  /\ env \in SpecHosts
  /\ cache \in BOOLEAN
  /\ pc = [p \in Procs |-> IF p = "top" THEN "main" ELSE "idle"]
  /\ exit_code = [p \in Procs |-> -1]
  /\ launch_exit = -1
  /\ log_ok = [p \in Procs |-> FALSE]
  /\ rc = -1
  /\ events = <<>>

Next ==
  \E p \in Procs :
    \/ Main(p)
    \/ RunYapf(p)
    \/ SyncScripts(p)
    \/ RunClangFormat(p)
    \/ Cleaning(p)
    \/ MkBuildDir(p)
    \/ GetNproc(p)
    \/ SelectToolchain(p)
    \/ Configure(p)
    \/ Compile(p)
    \/ RunClangTidy(p)
    \/ RunBinary(p)
    \/ ValidateAndReturn(p)
    \/ Recreate(p)
    \/ CopyTree(p)
    \/ Delegate(p)
    \/ ValidateSandbox(p)
    \/ CleanupOrPreserve(p)

Spec == Init /\ [][Next]_vars

\* --------------------------------------- the pipeline in every environment
\* The same pipeline started on a fresh checkout, in every kind of
\* environment and with every state of the two misc/ directories.
\* The CI variables: none, CI alone, a GitHub Actions runner, GITHUB_ACTIONS
\* set to something else than "true", a vendor variable alone.
CIFlavours ==
  {[CI |-> FALSE, GITHUB_ACTIONS |-> "unset", VENDOR_CI |-> FALSE],
   [CI |-> TRUE, GITHUB_ACTIONS |-> "unset", VENDOR_CI |-> FALSE],
   [CI |-> TRUE, GITHUB_ACTIONS |-> "true", VENDOR_CI |-> FALSE],
   [CI |-> FALSE, GITHUB_ACTIONS |-> "false", VENDOR_CI |-> FALSE],
   [CI |-> FALSE, GITHUB_ACTIONS |-> "unset", VENDOR_CI |-> TRUE]}

\* RUNNER_OS and platform.system() as they go together, with two systems no
\* compiler table knows.
Platforms ==
  {[RUNNER_OS |-> "unset", system |-> "Linux"],
   [RUNNER_OS |-> "Solaris", system |-> "Linux"],
   [RUNNER_OS |-> "unset", system |-> "FreeBSD"],
   [RUNNER_OS |-> "macOS", system |-> "Darwin"],
   [RUNNER_OS |-> "Windows", system |-> "Windows"]}

HostOf(f, o) ==
  [LocalHost EXCEPT !.CI = f.CI, !.GITHUB_ACTIONS = f.GITHUB_ACTIONS,
                    !.VENDOR_CI = f.VENDOR_CI, !.RUNNER_OS = o.RUNNER_OS,
                    !.system = o.system]

\* Every flavour on Linux, and every platform locally and on a GitHub runner.
CIHosts ==
  {HostOf(f, [RUNNER_OS |-> "unset", system |-> "Linux"]) : f \in CIFlavours}
    \cup {HostOf(f, o) : f \in {[CI |-> h.CI, GITHUB_ACTIONS |-> h.GITHUB_ACTIONS,
                                  VENDOR_CI |-> h.VENDOR_CI] : h \in SpecHosts},
                         o \in Platforms}

\* Hosts without ninja on PATH.
MakeHosts == {[h EXCEPT !.ninja = FALSE] : h \in SpecHosts}

\* Hosts on which the core-count query fails one way or another.
NprocHosts ==
  {[LocalHost EXCEPT !.system = "Darwin", !.sysctl = q, !.cpu_count = n] :
     q \in SysctlOutcomes, n \in {0, Cores}}
    \cup {[LocalHost EXCEPT !.cpu_count = 0]}

\* Hosts with RUN_CLANG_TIDY set, to "1" or to something else.
ToggleHosts ==
  {[h EXCEPT !.RUN_CLANG_TIDY = t] : h \in {LocalHost, GitHubHost}, t \in {"1", "0"}}

\* Hosts on which the launcher is started outside any git work tree, or on
\* which the sandbox lies outside the work tree the launcher is started in.
GitHosts ==
  {[h EXCEPT !.git = g] : h \in {LocalHost, GitHubHost}, g \in {{}, {"top"}}}

Hosts == CIHosts \cup MakeHosts \cup NprocHosts \cup ToggleHosts \cup GitHosts

\* States of the source misc/: complete, or one script of the list missing.
SourceScripts == {CanonicalScripts, [CanonicalScripts EXCEPT !["clang_tidy_all.py"] = "none"]}

\* States of the destination misc/: everything canonical, everything local,
\* a local one with a script missing, nothing but the launcher.
DestScripts ==
  {CanonicalScripts,
   [n \in MiscFiles |-> "local"],
   [[n \in MiscFiles |-> "local"] EXCEPT !["xflow_shared_functions.py"] = "none"],
   NoScripts}

FreshTree(l, sc) == [Tree(l, NoBuild, NoLog) EXCEPT !.scripts = sc]

InitHost ==
  /\ \E c \in Tokens, r \in BOOLEAN, vb \in BOOLEAN, v \in Variants :
       /\ args = [p \in Procs |-> IF p = "top" THEN Args(c, r, vb) ELSE NoArgs]
       /\ variant = [p \in Procs |-> IF p = "top" THEN v ELSE "none"]
       /\ \/ /\ env \in Hosts
             /\ vb => env \in SpecHosts \cup MakeHosts
             /\ c \notin Commands => env \in {LocalHost, GitHubHost} \cup GitHosts
             /\ IF c \in StandaloneCommands
                THEN fs = [d \in Dirs |-> IF d = "source_subdir" THEN Tree(v, NoBuild, NoLog)
                                          ELSE NoTree]
                ELSE \E s \in {Tree("sim_example", NoBuild, NoLog), TreeNoMisc} :
                       fs = [d \in Dirs |-> IF d = "repo_root" THEN Tree(v, NoBuild, NoLog)
                                            ELSE IF d = "source_subdir" THEN s ELSE NoTree]
          \/ /\ env \in SpecHosts
             /\ c \notin StandaloneCommands
             /\ ~vb /\ ~r
             /\ \E src \in SourceScripts, dst \in DestScripts :
                  fs = [d \in Dirs |-> IF d = "repo_root" THEN FreshTree(v, src)
                                       ELSE IF d = "source_subdir" THEN FreshTree("sim_example", dst)
                                       ELSE NoTree]
  /\ cache = TRUE
  /\ pc = [p \in Procs |-> IF p = "top" THEN "main" ELSE "idle"]
  /\ exit_code = [p \in Procs |-> -1]
  /\ launch_exit = -1
  /\ log_ok = [p \in Procs |-> FALSE]
  /\ rc = -1
  /\ events = <<>>

SpecHost == InitHost /\ [][Next]_vars

\* ------------------------------------------- validate_log_file on its own
\* The validator applied to every short log.  The log under validation is
\* the sandbox's simulation log, which the delegated launcher validates in
\* run_standalone_build (sim kind) and run_copy_test validates again.
MaxLogLen == 4
Alphabet == {PD, WD, CP, ERR, DIC, FAULT, NL, SP}
Texts == UNION {[1..n -> Alphabet] : n \in 0..MaxLogLen} \cup LogSamples \cup {PaddedSim}
ValidatorInputs == {NoLog} \cup {LogOf(c) : c \in Texts}

InitLog ==
  /\ \E k \in StandaloneCommands, l \in ValidatorInputs :
       /\ args = [p \in Procs |-> Args(k, FALSE, FALSE)]
       /\ fs = [d \in Dirs |-> IF d = "tmp_root" THEN Tree("sim_example", NoBuild, l) ELSE NoTree]
  /\ variant = [p \in Procs |-> "main"]
  /\ env = LocalHost
  /\ cache = FALSE
  /\ pc = [p \in Procs |-> "call"]
  /\ exit_code = [p \in Procs |-> -1]
  /\ launch_exit = -1
  /\ log_ok = [p \in Procs |-> FALSE]
  /\ rc = -1
  /\ events = <<>>

\* Faulty variant of CallValidate: the file is opened for writing.
CallValidate_Truncate(p) ==
  /\ pc[p] = "call"
  /\ log_ok' = [log_ok EXCEPT ![p] = validate_log_file(fs["tmp_root"].log, TestType(p))]
  /\ fs' = [fs EXCEPT !["tmp_root"].log = LogOf(<<>>)]
  /\ Goto(p, "returned")
  /\ UNCHANGED <<args, variant, env, cache, exit_code, launch_exit, rc, events>>

\* log_ok = validate_log_file(log_file, test_type): the file is opened with
\* mode "r" and read.
CallValidate(p) ==
  /\ pc[p] = "call"
  /\ log_ok' = [log_ok EXCEPT ![p] = validate_log_file(fs["tmp_root"].log, TestType(p))]
  /\ Goto(p, "returned")
  /\ UNCHANGED <<args, variant, env, fs, cache, exit_code, launch_exit, rc, events>>

NextLog == \E p \in Procs : CallValidate(p)

SpecLog == InitLog /\ [][NextLog]_vars

\* --------------------------------------------------- clang_format_all.py
\* The formatter script on its own.  Here fs is the sorted list of source
\* files get_source_files returns, args[p].command the mode argument and
\* env tells whether find_clang_format finds the tool.  A file is readable
\* (as UTF-8 text, by the script) or not, tidy (its content equals what
\* clang-format prints for it) or not, and clang-format exits 0 or not when
\* run on it without -i (check_ok) and with -i (inplace_ok).
MaxFiles == 2
Modes == {"format", "dry-run", "pre-commit"}
SourceFile == [readable : BOOLEAN, tidy : BOOLEAN, check_ok : BOOLEAN, inplace_ok : BOOLEAN]
FileLists == UNION {[1..n -> SourceFile] : n \in 0..MaxFiles}

InitFormat ==
  /\ \E m \in Modes \cup {"bogus"} :
       args = [p \in Procs |-> IF p = "top" THEN Args(m, FALSE, FALSE) ELSE NoArgs]
  /\ variant = [p \in Procs |-> "none"]
  /\ \E found \in BOOLEAN : env = [clang_format |-> found]
  /\ fs \in FileLists
  /\ cache = FALSE
  /\ pc = [p \in Procs |-> IF p = "top" THEN "formatter_main" ELSE "idle"]
  /\ exit_code = [p \in Procs |-> -1]
  /\ launch_exit = -1
  /\ log_ok = [p \in Procs |-> FALSE]
  /\ rc = -1
  /\ events = <<>>

\* check_needs_formatting: the files it returns, as positions in the list.
\* A file that cannot be read, or on which clang-format fails, is reported
\* on stderr and passed over.
check_needs_formatting(files) ==
  {i \in 1..Len(files) :
     /\ files[i].readable
     /\ files[i].check_ok
     /\ ~files[i].tidy}

\* format_files(..., in_place=True) on the files at positions todo, from
\* position i on: clang-format -i rewrites each file in turn; the first
\* failure returns False and leaves the remaining files alone.
RECURSIVE format_files(_, _, _)
format_files(files, todo, i) ==
  IF i > Len(files) THEN [ok |-> TRUE, files |-> files]
  ELSE IF i \notin todo THEN format_files(files, todo, i + 1)
  ELSE IF ~files[i].inplace_ok THEN [ok |-> FALSE, files |-> files]
  ELSE format_files([files EXCEPT ![i].tidy = TRUE], todo, i + 1)

\* main() up to the dispatch on the mode: an unknown mode and a missing
\* clang-format exit 1, an empty file list exits 0.
FormatterMain(p) ==
  /\ pc[p] = "formatter_main"
  /\ IF Command(p) \notin Modes THEN Exit(p, 1)
     ELSE IF ~env.clang_format THEN Exit(p, 1)
     ELSE IF Len(fs) = 0 THEN Exit(p, 0)
     ELSE Goto(p, Command(p)) /\ UNCHANGED exit_code
  /\ UNCHANGED <<args, variant, env, fs, cache, launch_exit, log_ok, rc, events>>

\* mode == 'dry-run'
DryRun(p) ==
  /\ pc[p] = "dry-run"
  /\ Exit(p, IF check_needs_formatting(fs) # {} THEN 1 ELSE 0)
  /\ UNCHANGED <<args, variant, env, fs, cache, launch_exit, log_ok, rc, events>>

\* mode == 'pre-commit'
PreCommit(p) ==
  /\ pc[p] = "pre-commit"
  /\ LET files_needing_format == check_needs_formatting(fs)
     IN  IF files_needing_format # {}
         THEN /\ fs' = format_files(fs, files_needing_format, 1).files
              /\ Exit(p, 1)
         ELSE /\ Exit(p, 0)
              /\ UNCHANGED fs
  /\ UNCHANGED <<args, variant, env, cache, launch_exit, log_ok, rc, events>>

\* mode == 'format'
FormatAll(p) ==
  /\ pc[p] = "format"
  /\ LET done == format_files(fs, 1..Len(fs), 1)
     IN  /\ fs' = done.files
         /\ Exit(p, IF done.ok THEN 0 ELSE 1)
  /\ UNCHANGED <<args, variant, env, cache, launch_exit, log_ok, rc, events>>

NextFormat ==
  \E p \in Procs :
    \/ FormatterMain(p)
    \/ DryRun(p)
    \/ PreCommit(p)
    \/ FormatAll(p)

SpecFormat == InitFormat /\ [][NextFormat]_vars

\* ------------------------------------------------ two copy tests at once
\* Two copy-test invocations started side by side on one repository.  They
\* compute the same tmp_root.  "child" is the launcher the earlier
\* invocation has started in the sandbox it copied (that invocation itself
\* is blocked in subprocess.run and takes no step); "top" is the later
\* invocation, followed up to its launcher check.  Both run
\* misc/launch_tests.py of the repository on a GitHub Actions runner.
InitRace ==
  /\ \E c \in CopyCommands, r \in BOOLEAN, rb \in BOOLEAN, v \in {"main"}, l \in Variants :
       /\ args = [p \in Procs |-> IF p = "top" THEN Args(c, r, FALSE)
                                   ELSE Args(IF c = "sim_example_copy_test_discon" THEN "discon"
                                             ELSE "xfe_control_sim", rb, FALSE)]
       /\ variant = [p \in Procs |-> IF p = "top" THEN v ELSE l]
       /\ \E b \in {NoBuild, CompiledBuild(SimBin)} :
            fs = [d \in Dirs |-> IF d = "repo_root" THEN Tree(v, NoBuild, NoLog)
                                 ELSE IF d = "source_subdir" THEN Tree(l, NoBuild, NoLog)
                                 ELSE Tree(l, IF rb THEN NoBuild ELSE b, NoLog)]
  /\ env = GitHubHost
  /\ cache = TRUE
  /\ pc = [p \in Procs |-> "main"]
  /\ exit_code = [p \in Procs |-> -1]
  /\ launch_exit = -1
  /\ log_ok = [p \in Procs |-> FALSE]
  /\ rc = -1
  /\ events = <<>>

NextRace ==
  \E p \in Procs :
    \/ Main(p)
    \/ RunYapf(p)
    \/ SyncScripts(p)
    \/ RunClangFormat(p)
    \/ Recreate(p)
    \/ CopyTree(p)
    \/ Cleaning(p)
    \/ MkBuildDir(p)
    \/ GetNproc(p)
    \/ SelectToolchain(p)
    \/ Configure(p)
    \/ Compile(p)
    \/ RunClangTidy(p)
    \/ RunBinary(p)
    \/ ValidateAndReturn(p)

SpecRace == InitRace /\ [][NextRace]_vars

\* ----------------------------------------------------------------- claims
\* history helpers
OpsOf(p) == SelectSeq(events, LAMBDA e : e.p = p)
Issued(p, op) == \E i \in 1..Len(events) : events[i] = Event(p, op)
Count(p, op) == Cardinality({i \in 1..Len(events) : events[i] = Event(p, op)})

\* run_copy_test has returned after reaching its validation step.
CopySessionReturned ==
  /\ Command("top") \in CopyCommands
  /\ pc["top"] = "done"
  /\ launch_exit # -1

\* C1: in run_copy_test, whenever log validation fails, the sandbox still
\* exists when the session returns and the returned exit code is non-zero,
\* also when the delegated launcher returned 0.
C1_FailedValidationPreservesSandbox ==
  (CopySessionReturned /\ ~log_ok["top"]) =>
    (fs["tmp_root"].exists /\ exit_code["top"] # 0)

\* C1 witness: the delegated run returned 0, the sandbox log ends with
\* "Unhandled fault", the session returned 1 and the sandbox is on disk.
C1_Witness ==
  /\ CopySessionReturned
  /\ launch_exit = 0
  /\ fs["tmp_root"].exists
  /\ fs["tmp_root"].log = LogOf(FaultSim)
  /\ ~log_ok["top"]
  /\ exit_code["top"] = 1

\* C2: in run_copy_test, whenever log validation passes, the sandbox does not
\* exist after the session returns, for every test kind and delegated exit code.
C2_PassedValidationRemovesSandbox ==
  (CopySessionReturned /\ log_ok["top"]) => ~fs["tmp_root"].exists

\* C2 witness: a discon copy test whose delegated run returned non-zero and
\* whose log validated; the sandbox is gone.
C2_Witness ==
  /\ CopySessionReturned
  /\ TestType("top") = "discon"
  /\ launch_exit = MaxExit
  /\ log_ok["top"]
  /\ ~fs["tmp_root"].exists

\* C3: for every run_copy_test session that reaches validation the returned
\* exit code is the delegated run's, except that it is 1 when validation
\* failed and the delegated run returned 0; it is 0 only if the delegated
\* run returned 0 and validation passed.
C3_CopyTestExitCode ==
  CopySessionReturned =>
    /\ (~log_ok["top"] /\ launch_exit = 0) => exit_code["top"] = 1
    /\ ~(~log_ok["top"] /\ launch_exit = 0) => exit_code["top"] = launch_exit
    /\ exit_code["top"] = 0 => (launch_exit = 0 /\ log_ok["top"])

\* C3 witness: validation failed and the delegated run's own non-zero exit
\* code is what the session returns.
C3_Witness ==
  /\ CopySessionReturned
  /\ ~log_ok["top"]
  /\ launch_exit = MaxExit
  /\ exit_code["top"] = MaxExit

\* C4: whenever run_copy_test returns a non-zero exit code the sandbox still
\* exists afterwards, also when the delegated run returned non-zero and the
\* log passed validation.
C4_NonZeroExitKeepsSandbox ==
  (Command("top") \in CopyCommands /\ pc["top"] = "done" /\ exit_code["top"] # 0) =>
    fs["tmp_root"].exists

\* C5: in run_copy_test the source subtree is copied into the sandbox if and
\* only if the sandbox is absent at the copy step; with rebuild false an
\* existing sandbox is neither removed, overwritten nor copied again.
C5_CopyIffAbsent ==
  [][/\ (pc["top"] = "copy" /\ pc'["top"] # "copy") =>
          IF fs["tmp_root"].exists
          THEN fs' = fs /\ events' = events
          ELSE /\ fs' = [fs EXCEPT !["tmp_root"] = fs["source_subdir"]]
               /\ events' = Append(events, Event("top", "copytree"))
      /\ (pc["top"] = "recreate" /\ pc'["top"] # "recreate" /\ ~Rebuild("top")) =>
          (fs' = fs /\ events' = events)
      /\ Count("top", "copytree")' <= 1]_vars

\* C5 witness: rebuild is false, the copy step is over, and the sandbox a
\* prior run left (its log ends with "Unhandled fault", unlike the source's)
\* is in place, not copied over.
C5_Witness ==
  /\ pc["top"] = "launcher_check"
  /\ ~Rebuild("top")
  /\ fs["tmp_root"].exists
  /\ fs["tmp_root"].log = LogOf(FaultSim)
  /\ fs["tmp_root"] # fs["source_subdir"]
  /\ ~Issued("top", "copytree")

\* C6: with rebuild true the sandbox is, when the delegated pipeline starts,
\* a fresh copy of the source subtree, whatever sandbox a prior run left.
C6_RebuildStartsFromFreshCopy ==
  (Command("top") \in CopyCommands /\ Rebuild("top")
     /\ (pc["top"] = "launcher_check" \/ (pc["top"] = "wait" /\ pc["child"] = "main"))) =>
    (fs["tmp_root"] = fs["source_subdir"] /\ Count("top", "copytree") = 1)

\* C6 witness: a prior sandbox (with a build and a log) was removed and the
\* delegated launcher starts in a copy of a source that has neither.
C6_Witness ==
  /\ Rebuild("top")
  /\ pc["top"] = "wait"
  /\ pc["child"] = "main"
  /\ Issued("top", "rmtree_tmp")
  /\ fs["tmp_root"].exists
  /\ ~fs["tmp_root"].build.exists
  /\ ~fs["tmp_root"].log.exists

\* The operations of build_project.
BuildOps == {"rmtree_build", "rmtree_cache", "mkdir_build", "configure", "compile"}

\* C7: build_project with rebuild false and an existing build directory
\* deletes nothing (build directory, analysis cache) and issues no configure
\* or compile subprocess.
C7_ReuseIsPassthrough ==
  [][\A p \in Procs :
       (pc[p] = "build_project" /\ pc'[p] # "build_project" /\ ~Rebuild(p) /\ Build(p).exists) =>
         /\ fs' = fs
         /\ cache' = cache
         /\ events' = events
         /\ pc'[p] = "clang_tidy"
         /\ \A op \in BuildOps : ~Issued(p, op)]_vars

\* C7 witness: build_project has returned with rebuild false; the compiled
\* build directory and the cache are still there.
C7_Witness ==
  \E p \in Procs :
    /\ pc[p] = "clang_tidy"
    /\ ~Rebuild(p)
    /\ Build(p) = CompiledBuild(SimBin)
    /\ cache

\* C8: build_project with rebuild true: right after the deletions of CLEANING
\* the build directory and the cppcheck cache are both absent, whether or not
\* they existed; the configure subprocess then starts with the cache absent
\* and the build directory recreated empty by mkdir.
C8_CleanBeforeConfigure ==
  \A p \in Procs :
    /\ pc[p] = "mkdir" => (Rebuild(p) /\ ~Build(p).exists /\ ~cache)
    /\ pc[p] = "configure" => (Rebuild(p) /\ Build(p) = EmptyBuild /\ ~cache)

\* C8 witness: both directories existed and were removed; CLEANING is over
\* and the configure step has not begun.
C8_Witness ==
  \E p \in Procs :
    /\ pc[p] = "mkdir"
    /\ Issued(p, "rmtree_build")
    /\ Issued(p, "rmtree_cache")
    /\ ~Build(p).exists
    /\ ~cache

\* Every event (p, a) lies before every event (p, b).
Indices(p, op) == {i \in 1..Len(events) : events[i] = Event(p, op)}
Before(p, a, b) == \A i \in Indices(p, a), j \in Indices(p, b) : i < j

\* C9: in one build_project call with rebuild true the deletions are over
\* before the configure subprocess starts, the compile subprocess starts only
\* after configure exited 0, and no phase is repeated or interleaved.
C9_BuildPhasesInOrder ==
  \A p \in Procs :
    /\ \A op \in BuildOps : Count(p, op) <= 1
    /\ Before(p, "rmtree_build", "mkdir_build") /\ Before(p, "rmtree_cache", "mkdir_build")
    /\ Before(p, "rmtree_build", "rmtree_cache")
    /\ Before(p, "mkdir_build", "configure") /\ Before(p, "configure", "compile")
    /\ Issued(p, "configure") => (Rebuild(p) /\ Issued(p, "mkdir_build"))
    /\ Issued(p, "compile") => Issued(p, "configure")
    /\ pc[p] = "compile" => (rc = 0 /\ Build(p).configured /\ ~Issued(p, "compile"))
    /\ pc[p] = "configure" => (~Issued(p, "configure") /\ ~Issued(p, "compile"))
    /\ pc[p] = "mkdir" => \A op \in {"mkdir_build", "configure", "compile"} : ~Issued(p, op)

\* C9 witness: a full rebuild: both deletions, mkdir, configure, compile.
C9_Witness ==
  \E p \in Procs :
    /\ pc[p] = "clang_tidy"
    /\ \A op \in BuildOps : Issued(p, op)
    /\ Build(p).outdir

\* The stages after the build: analysis, execution, validation.
LaterOps == {"clang_tidy", "run_binary", "validate"}

\* C10: when the configure or the compile subprocess exits non-zero, the
\* launcher process ends there with a non-zero exit code: the step is not
\* retried and compile, analysis, execution and validation are not started.
C10_BuildFailureIsFatal ==
  [][\A p \in Procs :
       /\ (pc[p] \in {"configure", "compile"} /\ pc'[p] # pc[p] /\ rc' # 0) =>
            /\ pc'[p] = "done"
            /\ exit_code'[p] # 0
            /\ events' = Append(events, Event(p, pc[p]))
            /\ \A op \in LaterOps : ~Issued(p, op)'
            /\ Count(p, "configure")' <= 1 /\ Count(p, "compile")' <= 1
            /\ pc[p] = "configure" => ~Issued(p, "compile")'
       /\ pc[p] = "done" =>
            (pc'[p] = "done" /\ exit_code'[p] = exit_code[p] /\ OpsOf(p)' = OpsOf(p))]_vars

\* C10 witness: the top-level main-repo pipeline ended with a non-zero exit
\* code right after a failed compile.
C10_Witness ==
  /\ Command("top") = "local_xfe_control_sim"
  /\ pc["top"] = "done"
  /\ rc = MaxExit
  /\ exit_code["top"] = ExceptionExit
  /\ events # <<>>
  /\ events[Len(events)] = Event("top", "compile")

\* Process p has exited and nothing has run since (the parent of the
\* delegated launcher is still waiting for it).
JustExited(p) == pc[p] = "done" /\ (p = "child" => pc["top"] = "wait")

\* C11: for the standalone xfe_control_sim command and the main-repo build
\* command the process exit code is 0 if and only if every build step that
\* ran succeeded, the binary was found and returned 0, and the simulation log
\* passed validation.
C11_ExitZeroIffFullSuccess ==
  \A p \in Procs :
    (Command(p) \in {"xfe_control_sim", "local_xfe_control_sim"} /\ JustExited(p)) =>
      (exit_code[p] = 0 <=>
         /\ Rebuild(p) => (Build(p).configured /\ Build(p).outdir)
         /\ Issued(p, "run_binary")
         /\ rc = 0
         /\ validate_log_file(fs[ProjectDir(p)].log, "xfe_control_sim"))

\* C11 witness: a main-repo rebuild that configured, compiled, ran a binary
\* that wrote the complete log and returned 0; the exit code is 0.
C11_Witness ==
  /\ Command("top") = "local_xfe_control_sim"
  /\ Rebuild("top")
  /\ pc["top"] = "done"
  /\ Issued("top", "configure") /\ Issued("top", "compile") /\ Issued("top", "run_binary")
  /\ fs["repo_root"].log = LogOf(GoodSim)
  /\ exit_code["top"] = 0

\* ---- validator claims (checked under SpecLog)
\* The log under validation and the test kind of the call.
TheLog == fs["tmp_root"].log
Kind == TestType("top")
Returned(p) == pc[p] = "returned"

\* The position of the last token that is neither whitespace nor a line
\* separator (0 when there is none).
LastContentIdx(content) ==
  LET S == {i \in 1..Len(content) : content[i] \notin Whitespace \cup {NL}}
  IN IF S = {} THEN 0 ELSE CHOOSE i \in S : \A j \in S : j <= i

\* Position j lies on the last non-blank line: no line separator between it
\* and the last content token.
OnLastContentLine(content, j) ==
  LET i == LastContentIdx(content)
  IN /\ i > 0
     /\ \A k \in (IF i < j THEN i ELSE j)..(IF i < j THEN j ELSE i) : content[k] # NL

LastContentLineHas(content, marker) ==
  \E j \in 1..Len(content) : content[j] = marker /\ OnLastContentLine(content, j)

SomeLineHas(content, marker) ==
  \E k \in 1..Len(SplitLines(content)) : Contains(SplitLines(content)[k], marker)

\* C12: for the sim test kind and an existing log, validate_log_file returns
\* true if and only if the content contains "Program Duration:", contains
\* "write Duration:", its last non-blank line contains "Closing Program" and
\* no line contains "ERROR".
C12_SimValidIffNoViolation ==
  \A p \in Procs :
    (Returned(p) /\ Kind = "xfe_control_sim" /\ TheLog.exists) =>
      (log_ok[p] <=>
         /\ Contains(TheLog.content, PD)
         /\ Contains(TheLog.content, WD)
         /\ LastContentLineHas(TheLog.content, CP)
         /\ ~SomeLineHas(TheLog.content, ERR))

\* C12 witness: a three-line log with both duration markers whose last line
\* is the closing line was validated for the sim kind and accepted.
C12_Witness ==
  /\ Returned("top") /\ Kind = "xfe_control_sim"
  /\ TheLog = LogOf(GoodSim)
  /\ log_ok["top"]

\* C13: for every log and both test kinds, a log with a line containing
\* "ERROR" is rejected, whatever markers and last line it has.
C13_ErrorLineForcesFalse ==
  \A p \in Procs :
    (Returned(p) /\ TheLog.exists /\ SomeLineHas(TheLog.content, ERR)) => ~log_ok[p]

\* C13 witness: a log with both duration markers, the closing line last and
\* an "ERROR" line was validated and rejected.
C13_Witness ==
  /\ Returned("top") /\ Kind = "xfe_control_sim"
  /\ TheLog = LogOf(ErrorSim)
  /\ Contains(TheLog.content, PD) /\ Contains(TheLog.content, WD)
  /\ LastContentLineHas(TheLog.content, CP)
  /\ ~log_ok["top"]

\* The last non-blank line, and a line without its whitespace.
LastContentLine(content) == NonBlankLines(content)[Len(NonBlankLines(content))]
IsContent(t) == t \notin Whitespace
Trimmed(line) == SelectSeq(line, IsContent)

\* C14 as stated: for the sim kind a log whose last non-blank line is not
\* exactly "Closing Program" is rejected.
C14_LastLineExactlyClosing ==
  \A p \in Procs :
    (/\ Returned(p) /\ Kind = "xfe_control_sim" /\ TheLog.exists
     /\ NonBlankLines(TheLog.content) # <<>>
     /\ Trimmed(LastContentLine(TheLog.content)) # <<CP>>) => ~log_ok[p]

\* C14 amended: for the sim kind a log whose last non-blank line does not
\* contain "Closing Program" is rejected, and trailing blank (empty or
\* whitespace-only) lines are ignored: the verdict is that of the log cut
\* after its last content token.
C14_LastLineContainsClosing ==
  \A p \in Procs :
    (Returned(p) /\ Kind = "xfe_control_sim" /\ TheLog.exists) =>
      /\ ~LastContentLineHas(TheLog.content, CP) => ~log_ok[p]
      /\ log_ok[p] = validate_log_file(
                       LogOf(SubSeq(TheLog.content, 1, LastContentIdx(TheLog.content))),
                       "xfe_control_sim")

\* C14 witness: a complete log followed by blank and whitespace-only lines
\* was accepted although its last raw line is blank.
C14_Witness ==
  /\ Returned("top") /\ Kind = "xfe_control_sim"
  /\ TheLog = LogOf(PaddedSim)
  /\ LastContentIdx(TheLog.content) < Len(TheLog.content)
  /\ log_ok["top"]

\* C15: for the discon test kind and an existing log, validate_log_file
\* returns true if and only if the content contains "discon init complete!"
\* and no line contains "ERROR".
C15_DisconValidIffMarkerAndNoError ==
  \A p \in Procs :
    (Returned(p) /\ Kind = "discon" /\ TheLog.exists) =>
      (log_ok[p] <=>
         (Contains(TheLog.content, DIC) /\ ~SomeLineHas(TheLog.content, ERR)))

\* C15 witness: a discon log with the marker, none of the sim markers and a
\* last line that is not the closing line was accepted.
C15_Witness ==
  /\ Returned("top") /\ Kind = "discon"
  /\ TheLog = LogOf(<<DIC, NL, FAULT>>)
  /\ log_ok["top"]

\* C16: a call of validate_log_file leaves the log file as it was, and a
\* call on the same log and test kind as an earlier call returns the same
\* result.
C16_ValidatorReadOnlyAndRepeatable ==
  [][\A p \in Procs :
       (pc[p] = "call" /\ pc'[p] = "returned") =>
         /\ fs' = fs
         /\ \A q \in Procs \ {p} : Returned(q) => log_ok'[p] = log_ok[q]]_vars

\* C16 witness: both callers validated the same complete log, both accepted
\* it, and the log is still there.
C16_Witness ==
  /\ Returned("top") /\ Returned("child")
  /\ TheLog = LogOf(GoodSim)
  /\ log_ok["top"] /\ log_ok["child"]

\* ---- pipeline claims, continued (checked under Spec)
\* C17: run_binary returns 1 without launching a process when
\* executables-out is missing or holds neither <name> nor <name>.exe;
\* otherwise it launches exactly one process, <name> if it exists and
\* <name>.exe if not, and returns that process's exit code unmodified.
C17_RunBinaryContract ==
  [][\A p \in Procs :
       (pc[p] = "run_binary" /\ pc'[p] # "run_binary") =>
         IF ~Build(p).outdir \/ {BinaryName(p), Exe(BinaryName(p))} \cap Build(p).bins = {}
         THEN /\ exit_code'[p] = 1
              /\ events' = events
              /\ rc' = rc
         ELSE /\ events' = events \o
                   <<Event(p, "run_binary"),
                     Event(p, IF BinaryName(p) \in Build(p).bins THEN BinaryName(p)
                              ELSE Exe(BinaryName(p)))>>
              /\ rc' \in ExitCodes
              /\ exit_code'[p] = rc']_vars

\* C17 witness: with both names present the bare name was launched, and its
\* largest exit code was returned as it is.
C17_Witness ==
  \E p \in Procs :
    /\ pc[p] = "validate"
    /\ Build(p).bins = {SimBin, Exe(SimBin)}
    /\ events # <<>> /\ events[Len(events)] = Event(p, SimBin)
    /\ rc = MaxExit /\ exit_code[p] = MaxExit

\* C18 as stated: whatever the analyzer does and whatever the state of the
\* build directory, the analysis step hands over to the binary-execution
\* step and leaves the exit code alone.
C18_AnalysisNeverFatal ==
  [][\A p \in Procs :
       (pc[p] = "clang_tidy" /\ pc'[p] # "clang_tidy") =>
         (pc'[p] = "run_binary" /\ exit_code'[p] = exit_code[p])]_vars

\* C19 as stated: after every invocation of run_clang_tidy, skipped ones
\* included, the analysis log of the build directory holds nothing written
\* by an earlier run.
C19_AnalysisLogIsCurrent ==
  [][\A p \in Procs :
       (pc[p] = "clang_tidy" /\ pc'[p] # "clang_tidy" /\ events' # events) =>
         fs'[ProjectDir(p)].build.tidylog # "stale"]_vars

\* C20 as stated: in both launchers an analysis invocation carries the
\* warnings-as-errors argument if and only if the run is detected as CI.
C20_WarningsAsErrorsIffCI ==
  \A p \in Procs :
    Issued(p, "clang_tidy") => (Issued(p, "warnings_as_errors") <=> is_ci)

\* ---- environment claims (checked under SpecHost)
\* C21 as stated: the build type on the configure command line is Release
\* whenever the run is in CI and whenever the shared-library test target is
\* built, and Debug when local and building the primary executable.
C21_BuildTypeByCI ==
  \A p \in Procs :
    (Issued(p, "Debug") \/ Issued(p, "Release")) =>
      (Issued(p, "Release") <=> (is_ci \/ ~build_executable(p)))

\* C22 as stated: in CI no entry point runs a formatter that rewrites source
\* files: neither `yapf -i` nor clang_format_all.py in its default mode.
C22_NoFormatterInCI ==
  is_ci => \A p \in Procs : ~Issued(p, "yapf") /\ ~Issued(p, "clang_format")

\* The compilers of the local table.
LocalCompilers == {"clang"}

\* C23 as stated: every CI-gated decision of a run follows the verdict of
\* the eight-variable detection: with one of the variables present the
\* formatter and the script sync are skipped and the compilers do not come
\* from the local table.
C23_OneCIVerdict ==
  is_ci_environment =>
    \A p \in Procs :
      /\ ~Issued(p, "yapf")
      /\ ~Issued(p, "sync")
      /\ \A c \in LocalCompilers : ~Issued(p, c)

\* The OS names build_project's compiler tables know.
KnownOS == {"Windows", "macOS", "Darwin", "Linux"}

\* C24 as stated: in every environment an unrecognized OS identity ends
\* build_project with a non-zero exit code before any configure or compile
\* subprocess is issued.
C24_UnknownOSIsFatal ==
  [][\A p \in Procs :
       (pc[p] = "toolchain" /\ pc'[p] # "toolchain" /\ os_name \notin KnownOS) =>
         /\ pc'[p] = "done"
         /\ exit_code'[p] # 0
         /\ events' = events]_vars

\* C25 as stated: get_nproc always returns an integer >= 1 and never ends
\* the pipeline; with the query failed and no count known the parallelism
\* is 1.
C25_NprocNeverAborts ==
  [][\A p \in Procs :
       (pc[p] = "nproc" /\ pc'[p] # "nproc") =>
         /\ pc'[p] = "toolchain"
         /\ exit_code'[p] = exit_code[p]
         /\ \E a \in {"-j 1", "-j N"} : events' = Append(events, Event(p, a))
         /\ ((env.system # "Darwin" \/ env.sysctl # "ok") /\ env.cpu_count = 0) =>
              events' = Append(events, Event(p, "-j 1"))]_vars

BuildCmds == {"ninja", "ninja -v", "make", "make VERBOSE=1"}

\* C26: the configure command asks for the Ninja generator if and only if
\* ninja is on PATH; the compile command is ninja with that generator and
\* make otherwise, with the tool's verbose flag (-v, VERBOSE=1) if and only
\* if verbose was requested.
C26_GeneratorAndBuildTool ==
  \A p \in Procs :
    Issued(p, "configure") =>
      /\ Issued(p, "-G Ninja") <=> env.ninja
      /\ {c \in BuildCmds : Issued(p, c)} =
           {IF Issued(p, "-G Ninja")
            THEN (IF Verbose(p) THEN "ninja -v" ELSE "ninja")
            ELSE (IF Verbose(p) THEN "make VERBOSE=1" ELSE "make")}

\* C26 witness: without ninja on PATH a verbose build configured with the
\* default generator and compiled with make VERBOSE=1.
C26_Witness ==
  /\ ~env.ninja /\ Verbose("top")
  /\ Issued("top", "configure") /\ Issued("top", "compile")
  /\ Issued("top", "make VERBOSE=1") /\ ~Issued("top", "-G Ninja")

FixedSet(v) ==
  IF v = "main" THEN {"clang_format_all.py", "clang_tidy_all.py"}
  ELSE {"clang_format_all.py", "clang_tidy_all.py", "xflow_shared_functions.py"}

\* C28: sync_scripts_to_subdir changes a destination file only if its name
\* is in the fixed set and the file exists in the canonical misc/, and then
\* the destination holds the canonical text; it deletes no destination file
\* and changes nothing else on disk.
C28_SyncTouchesOnlyFixedSet ==
  [][\A p \in Procs :
       (pc[p] = "sync" /\ pc'[p] # "sync") =>
         LET src == fs["repo_root"]
             dst == fs["source_subdir"]
             new == fs'["source_subdir"]
         IN /\ \A n \in MiscFiles :
                 /\ new.scripts[n] # dst.scripts[n] =>
                      (n \in FixedSet(variant[p]) /\ src.scripts[n] # "none"
                       /\ new.scripts[n] = src.scripts[n])
                 /\ dst.scripts[n] # "none" => new.scripts[n] # "none"
            /\ new.launcher # dst.launcher =>
                 (src.launcher # "none" /\ new.launcher = src.launcher)
            /\ dst.launcher # "none" => new.launcher # "none"
            /\ [new EXCEPT !.scripts = dst.scripts, !.launcher = dst.launcher] = dst
            /\ \A d \in Dirs \ {"source_subdir"} : fs'[d] = fs[d]]_vars

\* C28 witness: after a sync from a canonical misc/ without
\* clang_tidy_all.py the destination has the canonical
\* clang_format_all.py, still its own clang_tidy_all.py and its own
\* plot_viewer.py.
C28_Witness ==
  /\ Issued("top", "sync") /\ pc["top"] = "clang_format"
  /\ fs["repo_root"].scripts["clang_tidy_all.py"] = "none"
  /\ fs["source_subdir"].scripts["clang_format_all.py"] = "canonical"
  /\ fs["source_subdir"].scripts["clang_tidy_all.py"] = "local"
  /\ fs["source_subdir"].scripts["plot_viewer.py"] = "local"

\* C29: with the destination misc/ missing sync_scripts_to_subdir copies
\* and creates nothing and returns; the pipeline goes on with its next step.
C29_MissingDestinationIsNoOp ==
  [][\A p \in Procs :
       (pc[p] = "sync" /\ pc'[p] # "sync" /\ ~fs["source_subdir"].misc) =>
         /\ fs' = fs
         /\ events' = events
         /\ pc'[p] = "clang_format"
         /\ exit_code'[p] = exit_code[p]]_vars

\* C29 witness: a local main-repo run whose subdirectory has no misc/ went
\* past the sync and on to a full build and run of the binary.
C29_Witness ==
  /\ ~is_ci
  /\ Command("top") = "local_xfe_control_sim"
  /\ fs["source_subdir"] = TreeNoMisc
  /\ Issued("top", "compile") /\ Issued("top", "run_binary")

\* ---- stage order (checked under Spec)
\* The stages of a pipeline run and their place in the order: formatting
\* (yapf, then the script sync, then clang-format), the sandbox copy or the
\* build (configure, compile), the analysis or the delegated run, the
\* binary, the log validation.
Stages ==
  {"yapf", "sync", "clang_format", "copytree", "configure", "compile", "clang_tidy",
   "clang_tidy_skipped", "delegate", "run_binary", "validate"}
Rank(op) ==
  CASE op = "yapf" -> 1
    [] op = "sync" -> 2
    [] op = "clang_format" -> 3
    [] op \in {"copytree", "configure"} -> 4
    [] op = "compile" -> 5
    [] op \in {"clang_tidy", "clang_tidy_skipped", "delegate"} -> 6
    [] op = "run_binary" -> 7
    [] op = "validate" -> 8

\* C30: within one run the stages of a launcher process appear in the order
\* format, build (configure, compile), analysis, binary, validation, each at
\* most once; in copy-test mode the sync precedes the sandbox copy, the
\* parent waits while the delegated launcher runs, and everything the
\* delegated launcher does lies between the delegation and the sandbox
\* validation.
C30_StagesInOrder ==
  /\ \A i \in 1..Len(events) : \A j \in (i + 1)..Len(events) :
       (events[i].p = events[j].p /\ events[i].op \in Stages /\ events[j].op \in Stages) =>
         Rank(events[i].op) < Rank(events[j].op)
  /\ \A i \in 1..Len(events) :
       events[i].p = "child" =>
         /\ \E d \in Indices("top", "delegate") : d < i
         /\ \A v \in Indices("top", "validate") : i < v
  /\ pc["child"] \notin {"idle", "done"} => pc["top"] = "wait"
  /\ (Command("top") \in CopyCommands /\ Issued("top", "validate")) => pc["child"] = "done"

\* C30 witness: a copy test in which the parent formatted, synced, copied,
\* delegated and validated, and the delegated launcher formatted,
\* configured, compiled, analysed, ran the binary and validated.
C30_Witness ==
  /\ \A op \in {"yapf", "sync", "clang_format", "copytree", "delegate", "validate"} :
       Issued("top", op)
  /\ \A op \in {"clang_format", "configure", "compile", "clang_tidy", "run_binary", "validate"} :
       Issued("child", op)

\* ------------------------------------------------------------------- C31
\* C31: the formatters are never fatal.  A formatter step (yapf or
\* clang-format), whether it skips or runs its subprocess and whatever that
\* returns, hands over to the next step of the pipeline and leaves every
\* exit code as it was; all it may add to the history is its own subprocess.
FormatterSteps == {"yapf", "clang_format"}

C31_FormatterNeverFatal ==
  [][\A p \in Procs :
       (pc[p] \in FormatterSteps /\ pc'[p] # pc[p]) =>
         /\ pc'[p] \in {"sync", "recreate", "build_project"}
         /\ exit_code' = exit_code
         /\ launch_exit' = launch_exit
         /\ (events' = events \/ events' = Append(events, Event(p, pc[p])))]_vars

\* clang-format has returned non-zero and the pipeline stands at its next
\* step.
C31_Witness ==
  \E p \in Procs :
    /\ pc[p] \in {"recreate", "build_project"}
    /\ rc = 1
    /\ events # <<>>
    /\ events[Len(events)] = Event(p, "clang_format")
    /\ exit_code[p] = -1

\* ------------------------------------------------------------------- C32
\* The analysis step of p is taken.
AnalysisStep(p) == pc[p] = "clang_tidy" /\ pc'[p] # "clang_tidy"

\* The step passes the analysis by: nothing is issued or written and the
\* pipeline stands at the execution step.
AnalysisSkipped(p) ==
  /\ pc'[p] = "run_binary"
  /\ events' = events
  /\ fs' = fs
  /\ rc' = rc

\* The step enters run_clang_tidy: with a build directory to write its log
\* into, it reports the analysis or that its tools are missing.
AnalysisEntered(p) ==
  Build(p).exists =>
    \E op \in {"clang_tidy", "clang_tidy_skipped"} :
      /\ Len(events') > Len(events)
      /\ events'[Len(events) + 1] = Event(p, op)

ToggleOn == env.RUN_CLANG_TIDY \in {"unset", "1"}

\* C32 as stated: RUN_CLANG_TIDY decides for every run.  The analysis is
\* entered when the variable is unset or "1" and passed by when it has any
\* other value.
C32_ToggleDecides ==
  [][\A p \in Procs :
       AnalysisStep(p) => IF ToggleOn THEN AnalysisEntered(p) ELSE AnalysisSkipped(p)]_vars

\* C32 as amended: RUN_CLANG_TIDY decides for the runs the launcher does not
\* take for CI runs; in a CI run the analysis is entered whatever the
\* variable holds.
C32_ToggleDecidesOutsideCI ==
  [][\A p \in Procs :
       AnalysisStep(p) =>
         IF AnalysisCI(p) \/ ToggleOn THEN AnalysisEntered(p) ELSE AnalysisSkipped(p)]_vars

\* A local run with RUN_CLANG_TIDY=0 has built its project and stands at the
\* execution step without any analysis in its history.
C32_Witness ==
  \E p \in Procs :
    /\ ~ToggleOn /\ ~AnalysisCI(p)
    /\ pc[p] = "run_binary"
    /\ Issued(p, "compile")
    /\ ~Issued(p, "clang_tidy") /\ ~Issued(p, "clang_tidy_skipped")

\* ------------------------------------------------------------------- C33
\* The files of the list that need formatting: their content differs from
\* what the tool prints for them.
NeedFormatting(files) == {i \in 1..Len(files) : ~files[i].tidy}

\* C33: the pre-commit mode exits 0 exactly when no file needs formatting;
\* when some do, it rewrites exactly those files and exits non-zero, and
\* the other files are left as they were.
C33_PreCommitExitAndRewrite ==
  [][\A p \in Procs :
       (pc[p] = "pre-commit" /\ pc'[p] = "done") =>
         /\ exit_code'[p] = 0 <=> NeedFormatting(fs) = {}
         /\ \A i \in 1..Len(fs) :
              fs'[i] = IF i \in NeedFormatting(fs) THEN [fs[i] EXCEPT !.tidy = TRUE]
                       ELSE fs[i]]_vars

\* ------------------------------------------------------------------- C34
\* The runs of the tool a mode makes, and those that fail: the check of
\* every readable file (dry-run, pre-commit), the rewriting of the files
\* found to need it (pre-commit) or of every file (format).
ToolFails(mode, files) ==
  \/ /\ mode \in {"dry-run", "pre-commit"}
     /\ \E i \in 1..Len(files) : files[i].readable /\ ~files[i].check_ok
  \/ /\ mode = "pre-commit"
     /\ \E i \in check_needs_formatting(files) : ~files[i].inplace_ok
  \/ /\ mode = "format"
     /\ \E i \in 1..Len(files) : ~files[i].inplace_ok

\* C34: in every mode the script exits non-zero when the tool fails on a
\* file, and it exits 0 only when nothing needed a change or every change
\* was applied in place.
C34_ToolFailureIsNonZero ==
  [][\A p \in Procs :
       (pc[p] \in Modes /\ pc'[p] = "done") =>
         /\ ToolFails(pc[p], fs) => exit_code'[p] # 0
         /\ exit_code'[p] = 0 => (NeedFormatting(fs) = {} \/ NeedFormatting(fs') = {})]_vars

\* ------------------------------------------------------------------- C35
\* The step leaves the filesystem, the history and the other process alone.
NoSideEffects(p) ==
  /\ fs' = fs
  /\ cache' = cache
  /\ events' = events
  /\ rc' = rc
  /\ \A q \in Procs \ {p} : pc'[q] = pc[q]

\* C35: environment errors exit at once.  main() ends the process with
\* status 1 for an unknown command and for a main-repo or copy-test command
\* started outside a git repository, and with status 0 when no command is
\* given; in each case nothing has been issued or written.
C35_EnvironmentErrorsExitAtOnce ==
  [][\A p \in Procs :
       (pc[p] = "main" /\ pc'[p] # "main") =>
         /\ Command(p) = "none" =>
              pc'[p] = "done" /\ exit_code'[p] = 0 /\ NoSideEffects(p)
         /\ (Command(p) \notin Commands \cup {"none"}
               \/ (Command(p) \in Commands \ StandaloneCommands /\ p \notin env.git)) =>
              pc'[p] = "done" /\ exit_code'[p] = 1 /\ NoSideEffects(p)]_vars

\* A copy test started outside a git repository has exited with status 1
\* and an empty history, the sandbox untouched.
C35_Witness ==
  /\ Command("top") \in CopyCommands
  /\ "top" \notin env.git
  /\ pc["top"] = "done"
  /\ exit_code["top"] = 1
  /\ events = <<>>
  /\ ~fs["tmp_root"].exists

\* ------------------------------------------------------------------- C36
\* Process q has configured its build and has not finished running its
\* binary.
InBuildWindow(q) ==
  /\ pc[q] \in {"compile", "clang_tidy", "run_binary"}
  /\ Issued(q, "configure")

\* C36: no lock guards the sandbox.  Whenever a copy test with rebuild set
\* stands before its rmtree of an existing sandbox, the deletion can be
\* taken at once, also while another launcher is between its configure step
\* and the end of its binary's execution in that sandbox.
C36_DeletionNeverWaits ==
  (pc["top"] = "recreate" /\ Rebuild("top") /\ fs["tmp_root"].exists) =>
    ENABLED (Recreate("top") /\ ~fs'["tmp_root"].exists)

\* The sandbox has just been deleted by the later copy test while the
\* launcher of the earlier one, also rebuilding, is inside its build window.
C36_Witness ==
  /\ InBuildWindow("child")
  /\ Rebuild("top") /\ Rebuild("child")
  /\ pc["top"] = "copy"
  /\ events # <<>>
  /\ events[Len(events)] = Event("top", "rmtree_tmp")
  /\ ~fs["tmp_root"].exists

\* ------------------------------------------------------------------- C37
\* C37: the rebuild flag alone gates the build.  A process has issued mkdir,
\* configure or compile only with rebuild set, and one that has come out of
\* build_project with rebuild set has issued configure and compile, whether
\* or not a build directory existed.  With rebuild unset build_project
\* changes and issues nothing, and the execution step that finds no build
\* directory returns 1 without launching anything.
PastBuild == {"clang_tidy", "run_binary", "validate"}

C37_BuildGatedOnRebuildOnly ==
  [][\A p \in Procs :
       /\ (\E op \in BuildOps : Issued(p, op)) => Rebuild(p)
       /\ (Rebuild(p) /\ pc[p] \in PastBuild) =>
            Issued(p, "configure") /\ Issued(p, "compile")
       /\ (pc[p] = "build_project" /\ pc'[p] # "build_project" /\ ~Rebuild(p)) =>
            fs' = fs /\ cache' = cache /\ events' = events /\ pc'[p] = "clang_tidy"
       /\ (pc[p] = "run_binary" /\ pc'[p] # "run_binary" /\ ~Build(p).exists) =>
            /\ exit_code'[p] = 1
            /\ events' = events
            /\ ~fs'[ProjectDir(p)].build.exists]_vars

\* A run with rebuild unset in a tree without build directory has come out
\* of its execution step with 1, having built nothing.
C37_Witness ==
  \E p \in Procs :
    /\ ~Rebuild(p)
    /\ pc[p] = "validate"
    /\ ~Build(p).exists
    /\ exit_code[p] = 1
    /\ \A op \in BuildOps : ~Issued(p, op)

\* ------------------------------------------------------------------- C38
\* C38: a sandbox without launcher ends the copy test at once.  The
\* launcher check that finds <tmp_root>/misc/launch_tests.py missing returns
\* 1; no subprocess is started, no validation is run, and the sandbox stays
\* on disk as it is.
C38_MissingLauncherReturnsOne ==
  [][\A p \in Procs :
       (pc[p] = "launcher_check" /\ pc'[p] # "launcher_check"
          /\ fs["tmp_root"].launcher = "none") =>
         /\ pc'[p] = "done"
         /\ exit_code'[p] = 1
         /\ pc'["child"] = pc["child"]
         /\ events' = events
         /\ log_ok' = log_ok
         /\ launch_exit' = launch_exit
         /\ fs' = fs
         /\ fs'["tmp_root"].exists]_vars

\* A copy test has copied a subdirectory without launcher and returned 1;
\* nothing was delegated or validated and the sandbox is still there.
C38_Witness ==
  /\ Command("top") \in CopyCommands
  /\ pc["top"] = "done"
  /\ exit_code["top"] = 1
  /\ Issued("top", "copytree")
  /\ fs["tmp_root"].exists
  /\ fs["tmp_root"].launcher = "none"
  /\ ~Issued("top", "delegate")
  /\ ~Issued("top", "validate")
  /\ pc["child"] = "idle"

\* ------------------------------------------------------------------- C39
\* C39: a missing log fails validation.  The validation of a sandbox whose
\* log file does not exist yields false for either test kind and creates
\* nothing; the copy test then keeps the sandbox and returns non-zero.
C39_MissingLogFailsCopyTest ==
  [][\A p \in Procs :
       /\ (pc[p] = "wait" /\ pc'[p] # "wait" /\ ~fs["tmp_root"].log.exists) =>
            /\ ~log_ok'[p]
            /\ fs' = fs
       /\ (pc[p] = "cleanup" /\ pc'[p] # "cleanup" /\ ~fs["tmp_root"].log.exists) =>
            /\ fs'["tmp_root"] = fs["tmp_root"]
            /\ fs'["tmp_root"].exists
            /\ exit_code'[p] # 0]_vars

\* A discon copy test whose delegated launcher exited 0 without leaving a
\* log has returned non-zero and kept the sandbox.
C39_Witness ==
  /\ Command("top") = "sim_example_copy_test_discon"
  /\ pc["top"] = "done"
  /\ launch_exit = 0
  /\ Issued("top", "validate")
  /\ fs["tmp_root"].exists
  /\ ~fs["tmp_root"].log.exists
  /\ exit_code["top"] # 0

\* ------------------------------------------------------------------- C40
\* C40: the standalone discon pipeline validates no log.  Its tail hands
\* back run_binary's result as it is and reads no log, whatever the log
\* holds; the tail of the standalone sim and of the main-repo pipeline
\* validates the log each time.
C40_DisconUnvalidated ==
  [][\A p \in Procs :
       (pc[p] = "validate" /\ pc'[p] # "validate") =>
         IF Command(p) = "discon"
         THEN /\ exit_code'[p] = exit_code[p]
              /\ events' = events
              /\ log_ok' = log_ok
         ELSE /\ events' = Append(events, Event(p, "validate"))
              /\ log_ok'[p] = validate_log_file(fs[ProjectDir(p)].log, "xfe_control_sim")]_vars

\* A standalone discon run has returned 0 although its log would not pass
\* the discon validation.
C40_Witness ==
  \E p \in Procs :
    /\ Command(p) = "discon"
    /\ pc[p] = "done"
    /\ exit_code[p] = 0
    /\ Issued(p, "run_binary")
    /\ fs[ProjectDir(p)].log.exists
    /\ Contains(fs[ProjectDir(p)].log.content, ERR)
    /\ ~Contains(fs[ProjectDir(p)].log.content, DIC)


====
